---- MODULE Spec2Model ----
(***************************************************************************)
(* Model of the Bolt v1 protocol facade (bolt-protocol-v1.js) and of the   *)
(* PackStream v1 codec (packstream-v1.js) of the neo4j javascript driver.  *)
(*                                                                         *)
(* The facade is a state machine over the calls it makes on its            *)
(* collaborators (connection.write, connection._handleFatalError,          *)
(* observer.onError), recorded in order in `log`.                          *)
(* The codec is a state machine over the Packer's flag and the bytes the   *)
(* latest operation wrote on the channel.                                  *)
(***************************************************************************)
EXTENDS Integers, Sequences, FiniteSets, TLC

VARIABLES
  log,      \* calls made on the connection and the observers, in call order
  call,     \* the latest facade invocation: operation, arguments, outcome
  calls,    \* number of facade invocations so far
  byteArraysSupported,  \* Packer._byteArraysSupported
  ch,       \* bytes the latest Packer operation wrote on the channel
  errs,     \* errors the latest Packer operation gave to onError, in order
  op,       \* the latest codec operation and its input
  disableLosslessIntegers,  \* Unpacker._disableLosslessIntegers
  res       \* outcome of the latest Unpacker operation

boltVars == <<log, call, calls>>

packVars == <<byteArraysSupported, ch, errs, op, disableLosslessIntegers, res>>

vars == <<log, call, calls, byteArraysSupported, ch, errs, op, disableLosslessIntegers, res>>

(***************************************************************************)
(* Bounds                                                                  *)
(***************************************************************************)
MaxCalls == 2

(***************************************************************************)
(* Inputs of the facade                                                    *)
(***************************************************************************)
Statements == {"RETURN 1", "MATCH (n) RETURN n"}

\* a parameters / auth-token object, as a set of <<key, value>> pairs
Parameters == {{}, {<<"x", "1">>}}

AuthTokens == {{<<"scheme", "basic">>}}

ClientNames == {"neo4j-javascript/0.0.0-dev"}

Observers == {"o1", "o2"}

\* a bookmark, as the set of bookmark strings it holds
Bookmark_empty == {}

Bookmarks == {Bookmark_empty, {"neo4j:bookmark:v1:tx42"}}

\* a transaction configuration: timeout (0 when unset) and metadata entries
TxConfig_empty == [timeout |-> 0, metadata |-> {}]

TxConfigs ==
  { TxConfig_empty,
    [timeout |-> 5000, metadata |-> {}],
    [timeout |-> 0, metadata |-> {<<"app", "test">>}] }

isEmpty(txConfig) == txConfig.timeout = 0 /\ txConfig.metadata = {}

asBeginTransactionParameters(bookmark) == { <<"bookmark", b>> : b \in bookmark }

(***************************************************************************)
(* Request messages and errors                                             *)
(***************************************************************************)
RequestMessage_init(clientName, authToken) ==
  [signature |-> 1, name |-> "INIT", fields |-> <<clientName, authToken>>]

RequestMessage_run(statement, parameters) ==
  [signature |-> 16, name |-> "RUN", fields |-> <<statement, parameters>>]

RequestMessage_pullAll == [signature |-> 63, name |-> "PULL_ALL", fields |-> <<>>]

RequestMessage_reset == [signature |-> 15, name |-> "RESET", fields |-> <<>>]

\* newError(message, code); `id` stands for the identity of the object created
newError(message, code, id) == [message |-> message, code |-> code, id |-> id]

TxConfigMessage == "Driver is connected to the database that does not support transaction configuration. Please upgrade to neo4j 3.5.0 or later in order to use this functionality"

(***************************************************************************)
(* Collaborators: each call is appended to the log                         *)
(***************************************************************************)
connection_write(l, message, observer, flush) ==
  Append(l, [kind |-> "write", message |-> message, observer |-> observer, flush |-> flush])

connection_handleFatalError(l, error) ==
  Append(l, [kind |-> "handleFatalError", error |-> error])

observer_onError(l, observer, error) ==
  Append(l, [kind |-> "onError", observer |-> observer, error |-> error])

(***************************************************************************)
(* assertTxConfigIsEmpty: the log after the check and the error thrown     *)
(* (<<>> when the check passes)                                            *)
(***************************************************************************)
\* faulty variant: the observer is not told
assertTxConfigIsEmpty_silent(l, txConfig, observer, id) ==
  IF ~isEmpty(txConfig)
    THEN LET error == newError(TxConfigMessage, "N/A", id)
         IN [log |-> connection_handleFatalError(l, error), thrown |-> <<error>>]
    ELSE [log |-> l, thrown |-> <<>>]

assertTxConfigIsEmpty(l, txConfig, observer, id) ==
  IF ~isEmpty(txConfig)
    THEN LET error == newError(TxConfigMessage, "N/A", id)
         IN [log |-> observer_onError(connection_handleFatalError(l, error), observer, error),
             thrown |-> <<error>>]
    ELSE [log |-> l, thrown |-> <<>>]

(***************************************************************************)
(* BoltProtocol operations.  Each is the log after the call and the error  *)
(* thrown by it.                                                           *)
(***************************************************************************)
\* faulty variant: the bookmark travels in the RUN parameters
run_withBookmark(l, statement, parameters, bookmark, txConfig, observer, id) ==
  LET a == assertTxConfigIsEmpty(l, txConfig, observer, id)
      runMessage == RequestMessage_run(statement, parameters \cup asBeginTransactionParameters(bookmark))
  IN IF a.thrown # <<>>
       THEN a
       ELSE [log |-> connection_write(connection_write(a.log, runMessage, observer, FALSE),
                                      RequestMessage_pullAll, observer, TRUE),
             thrown |-> <<>>]

\* faulty variant: PULL_ALL of the statement is left unflushed
run_writes_unflushed(l, statement, parameters, observer) ==
  LET runMessage == RequestMessage_run(statement, parameters)
      pullAllMessage == RequestMessage_pullAll
  IN connection_write(connection_write(l, runMessage, observer, FALSE),
                      pullAllMessage, observer, FALSE)

run_writes(l, statement, parameters, observer) ==
  LET runMessage == RequestMessage_run(statement, parameters)
      pullAllMessage == RequestMessage_pullAll
  IN connection_write(connection_write(l, runMessage, observer, FALSE),
                      pullAllMessage, observer, TRUE)

run(l, statement, parameters, bookmark, txConfig, observer, id) ==
  LET a == assertTxConfigIsEmpty(l, txConfig, observer, id)
  IN IF a.thrown # <<>>
       THEN a
       ELSE [log |-> run_writes(a.log, statement, parameters, observer), thrown |-> <<>>]

\* faulty variant: PULL_ALL of BEGIN is flushed
beginTransaction_writes_flushed(l, bookmark, observer) ==
  LET runMessage == RequestMessage_run("BEGIN", asBeginTransactionParameters(bookmark))
      pullAllMessage == RequestMessage_pullAll
  IN connection_write(connection_write(l, runMessage, observer, FALSE),
                      pullAllMessage, observer, TRUE)

beginTransaction_writes(l, bookmark, observer) ==
  LET runMessage == RequestMessage_run("BEGIN", asBeginTransactionParameters(bookmark))
      pullAllMessage == RequestMessage_pullAll
  IN connection_write(connection_write(l, runMessage, observer, FALSE),
                      pullAllMessage, observer, FALSE)

beginTransaction(l, bookmark, txConfig, observer, id) ==
  LET a == assertTxConfigIsEmpty(l, txConfig, observer, id)
  IN IF a.thrown # <<>>
       THEN a
       ELSE [log |-> beginTransaction_writes(a.log, bookmark, observer), thrown |-> <<>>]

\* faulty variant: COMMIT is sent as a bare RUN, without PULL_ALL and without flush
commitTransaction_bare(l, observer, id) ==
  [log |-> connection_write(l, RequestMessage_run("COMMIT", {}), observer, FALSE), thrown |-> <<>>]

commitTransaction(l, observer, id) ==
  run(l, "COMMIT", {}, Bookmark_empty, TxConfig_empty, observer, id)

rollbackTransaction(l, observer, id) ==
  run(l, "ROLLBACK", {}, Bookmark_empty, TxConfig_empty, observer, id)

initialize(l, clientName, authToken, observer) ==
  LET message == RequestMessage_init(clientName, authToken)
  IN [log |-> connection_write(l, message, observer, TRUE), thrown |-> <<>>]

\* faulty variant: RESET is left unflushed
reset_unflushed(l, observer) ==
  LET message == RequestMessage_reset
  IN [log |-> connection_write(l, message, observer, FALSE), thrown |-> <<>>]

reset(l, observer) ==
  LET message == RequestMessage_reset
  IN [log |-> connection_write(l, message, observer, TRUE), thrown |-> <<>>]


(***************************************************************************)
(*                         PackStream v1 codec                             *)
(***************************************************************************)
TINY_STRING == 128
TINY_LIST == 144
TINY_MAP == 160
TINY_STRUCT == 176
NULL == 192
FLOAT_64 == 193
FALSE_MARKER == 194
TRUE_MARKER == 195
INT_8 == 200
INT_16 == 201
INT_32 == 202
INT_64 == 203
STRING_8 == 208
STRING_16 == 209
STRING_32 == 210
LIST_8 == 212
LIST_16 == 213
LIST_32 == 214
BYTES_8 == 204
BYTES_16 == 205
BYTES_32 == 206
MAP_8 == 216
MAP_16 == 217
MAP_32 == 218
STRUCT_8 == 220
STRUCT_16 == 221

NODE == 78
NODE_STRUCT_SIZE == 3
RELATIONSHIP == 82
RELATIONSHIP_STRUCT_SIZE == 5
UNBOUND_RELATIONSHIP == 114
UNBOUND_RELATIONSHIP_STRUCT_SIZE == 3
PATH == 80
PATH_STRUCT_SIZE == 3

PROTOCOL_ERROR == "ProtocolError"

(***************************************************************************)
(* Host arithmetic: bitwise operators on bytes, and a/b>>0 on sizes        *)
(***************************************************************************)
RECURSIVE BitOr(_, _)
BitOr(a, b) ==
  IF a = 0 THEN b
  ELSE IF b = 0 THEN a
  ELSE (IF a % 2 = 1 \/ b % 2 = 1 THEN 1 ELSE 0) + 2 * BitOr(a \div 2, b \div 2)

RECURSIVE BitAnd(_, _)
BitAnd(a, b) ==
  IF a = 0 \/ b = 0 THEN 0
  ELSE (IF a % 2 = 1 /\ b % 2 = 1 THEN 1 ELSE 0) + 2 * BitAnd(a \div 2, b \div 2)

\* a/b>>0 for a size a >= 0 whose quotient is below 2^31
DivShr0(a, b) == a \div b

\* size < 0x100000000 for a size >= 0
Below2Pow32(size) == (size \div 65536) < 65536

(***************************************************************************)
(* Values of the host language given to the Packer or built by the         *)
(* Unpacker, as tagged records                                             *)
(***************************************************************************)
Null == [t |-> "null"]

Undefined == [t |-> "undefined"]

Bool(b) == [t |-> "boolean", b |-> b]

\* a native number, by the 8 bytes of its IEEE-754 image
Number(image) == [t |-> "number", image |-> image]

\* an Integer: two 32-bit signed words
Integer(low, high) == [t |-> "Integer", high |-> high, low |-> low]

\* a string, by its code points
String(cp) == [t |-> "string", cp |-> cp]

\* an Int8Array, by its elements in -128..127
Int8Array(elems) == [t |-> "Int8Array", elems |-> elems]

Array(items) == [t |-> "Array", items |-> items]

\* a plain object: its own enumerable properties in insertion order
Object(props) == [t |-> "Object", props |-> props]

Prop(key, value) == [key |-> key, value |-> value]

Structure(signature, fields) == [t |-> "Structure", signature |-> signature, fields |-> fields]

MinInt32 == -2147483647 - 1

\* int(n) for a native number n in the 32-bit signed range
int(n) == Integer(n, IF n < 0 THEN -1 ELSE 0)

\* int(0x80000000)
int_0x80000000 == Integer(MinInt32, 0)

isInt(x) == x.t = "Integer"

\* unsigned comparison of two 32-bit words held as signed numbers
UnsignedLess(a, b) == IF (a < 0) = (b < 0) THEN a < b ELSE b < 0

Integer_lessThan(x, y) ==
  \/ x.high < y.high
  \/ x.high = y.high /\ UnsignedLess(x.low, y.low)

Integer_greaterThanOrEqual(x, y) == ~Integer_lessThan(x, y)

(***************************************************************************)
(* The channel: what each write primitive puts on the wire (big-endian)    *)
(***************************************************************************)
writeUInt8(v) == << v % 256 >>

writeInt8(v) == << v % 256 >>

writeInt16(v) == << (v \div 256) % 256, v % 256 >>

writeInt32(v) ==
  << (v \div 16777216) % 256, (v \div 65536) % 256, (v \div 256) % 256, v % 256 >>

writeFloat64(x) == x.image

writeBytes(bytes) == bytes

\* utf8.encode of one code point, then of a string
utf8_encodeChar(c) ==
  IF c < 128 THEN << c >>
  ELSE IF c < 2048 THEN << 192 + (c \div 64), 128 + (c % 64) >>
  ELSE IF c < 65536 THEN << 224 + (c \div 4096), 128 + ((c \div 64) % 64), 128 + (c % 64) >>
  ELSE << 240 + (c \div 262144), 128 + ((c \div 4096) % 64),
          128 + ((c \div 64) % 64), 128 + (c % 64) >>

\* the code points cp[lo..hi], one after the other
RECURSIVE utf8_encodeRange(_, _, _)
utf8_encodeRange(cp, lo, hi) ==
  IF lo > hi THEN << >>
  ELSE IF lo = hi THEN utf8_encodeChar(cp[lo])
  ELSE LET mid == (lo + hi) \div 2
       IN utf8_encodeRange(cp, lo, mid) \o utf8_encodeRange(cp, mid + 1, hi)

utf8_encode(x) == utf8_encodeRange(x.cp, 1, Len(x.cp))

(***************************************************************************)
(* Effects of Packer code: bytes written, errors given to onError, and     *)
(* the exception that ended it (<<>> when it returned)                     *)
(***************************************************************************)
Effect(bytes, errors, thrown) == [ch |-> bytes, errs |-> errors, thrown |-> thrown]

Wrote(bytes) == Effect(bytes, << >>, << >>)

Nothing == Wrote(<< >>)

\* e1; e2
Then(e1, e2) ==
  IF e1.thrown # << >> THEN e1
  ELSE Effect(e1.ch \o e2.ch, e1.errs \o e2.errs, e2.thrown)

TypeError == "TypeError"

\* onError(newError(message, code)): onError is undefined when the caller
\* passed none, and calling it throws
OnError(hasOnError, message, code) ==
  IF hasOnError THEN Effect(<< >>, << [message |-> message, code |-> code] >>, << >>)
  ELSE Effect(<< >>, << >>, << TypeError >>)

NoCode == "N/A"

(***************************************************************************)
(* Packer                                                                  *)
(***************************************************************************)
\* faulty variant: 0x80000000 is taken for the 32-bit word -2^31
packInteger_signed(x) ==
  LET high == x.high
      low == x.low
  IN IF Integer_greaterThanOrEqual(x, int(-16)) /\ Integer_lessThan(x, int(128))
       THEN Wrote(writeInt8(low))
     ELSE IF Integer_greaterThanOrEqual(x, int(-128)) /\ Integer_lessThan(x, int(-16))
       THEN Wrote(writeUInt8(INT_8) \o writeInt8(low))
     ELSE IF Integer_greaterThanOrEqual(x, int(-32768)) /\ Integer_lessThan(x, int(32768))
       THEN Wrote(writeUInt8(INT_16) \o writeInt16(low))
     ELSE IF Integer_greaterThanOrEqual(x, int(MinInt32)) /\ Integer_lessThan(x, int(MinInt32))
       THEN Wrote(writeUInt8(INT_32) \o writeInt32(low))
     ELSE Wrote(writeUInt8(INT_64) \o writeInt32(high) \o writeInt32(low))

packInteger(x) ==
  LET high == x.high
      low == x.low
  IN IF Integer_greaterThanOrEqual(x, int(-16)) /\ Integer_lessThan(x, int(128))
       THEN Wrote(writeInt8(low))
     ELSE IF Integer_greaterThanOrEqual(x, int(-128)) /\ Integer_lessThan(x, int(-16))
       THEN Wrote(writeUInt8(INT_8) \o writeInt8(low))
     ELSE IF Integer_greaterThanOrEqual(x, int(-32768)) /\ Integer_lessThan(x, int(32768))
       THEN Wrote(writeUInt8(INT_16) \o writeInt16(low))
     ELSE IF Integer_greaterThanOrEqual(x, int(MinInt32)) /\ Integer_lessThan(x, int_0x80000000)
       THEN Wrote(writeUInt8(INT_32) \o writeInt32(low))
     ELSE Wrote(writeUInt8(INT_64) \o writeInt32(high) \o writeInt32(low))

packFloat(x) == Wrote(writeUInt8(FLOAT_64) \o writeFloat64(x))

\* the size part of packString: what is written before the bytes
packStringHeader(size, hasOnError) ==
  IF size < 16 THEN Wrote(writeUInt8(BitOr(TINY_STRING, size)))
  ELSE IF size < 256 THEN Wrote(writeUInt8(STRING_8) \o writeUInt8(size))
  ELSE IF size < 65536
    THEN Wrote(writeUInt8(STRING_16) \o writeUInt8(DivShr0(size, 256)) \o writeUInt8(size % 256))
  ELSE IF Below2Pow32(size)
    THEN Wrote(writeUInt8(STRING_32)
               \o writeUInt8(DivShr0(size, 16777216) % 256)
               \o writeUInt8(DivShr0(size, 65536) % 256)
               \o writeUInt8(DivShr0(size, 256) % 256)
               \o writeUInt8(size % 256))
  ELSE OnError(hasOnError, "UTF-8 strings of size are not supported", NoCode)

packString(x, hasOnError) ==
  LET bytes == utf8_encode(x)
      size == Len(bytes)
  IN IF Below2Pow32(size)
       THEN Then(packStringHeader(size, hasOnError), Wrote(writeBytes(bytes)))
       ELSE packStringHeader(size, hasOnError)

packListHeader(size, hasOnError) ==
  IF size < 16 THEN Wrote(writeUInt8(BitOr(TINY_LIST, size)))
  ELSE IF size < 256 THEN Wrote(writeUInt8(LIST_8) \o writeUInt8(size))
  ELSE IF size < 65536
    THEN Wrote(writeUInt8(LIST_16) \o writeUInt8(DivShr0(size, 256) % 256) \o writeUInt8(size % 256))
  ELSE IF Below2Pow32(size)
    THEN Wrote(writeUInt8(LIST_32)
               \o writeUInt8(DivShr0(size, 16777216) % 256)
               \o writeUInt8(DivShr0(size, 65536) % 256)
               \o writeUInt8(DivShr0(size, 256) % 256)
               \o writeUInt8(size % 256))
  ELSE OnError(hasOnError, "Lists of size are not supported", NoCode)

packBytesHeader(size, hasOnError) ==
  IF size < 256 THEN Wrote(writeUInt8(BYTES_8) \o writeUInt8(size))
  ELSE IF size < 65536
    THEN Wrote(writeUInt8(BYTES_16) \o writeUInt8(DivShr0(size, 256) % 256) \o writeUInt8(size % 256))
  ELSE IF Below2Pow32(size)
    THEN Wrote(writeUInt8(BYTES_32)
               \o writeUInt8(DivShr0(size, 16777216) % 256)
               \o writeUInt8(DivShr0(size, 65536) % 256)
               \o writeUInt8(DivShr0(size, 256) % 256)
               \o writeUInt8(size % 256))
  ELSE OnError(hasOnError, "Byte arrays of size are not supported", NoCode)

\* for (i...) this._ch.writeInt8(array[i]), for i in lo..hi
RECURSIVE packBytesRange(_, _, _)
packBytesRange(array, lo, hi) ==
  IF lo > hi THEN << >>
  ELSE IF lo = hi THEN writeInt8(array.elems[lo])
  ELSE LET mid == (lo + hi) \div 2
       IN packBytesRange(array, lo, mid) \o packBytesRange(array, mid + 1, hi)

\* faulty variant: the flag is not read
packBytes_unchecked(array, hasOnError, supported) ==
  Then(packBytesHeader(Len(array.elems), hasOnError), Wrote(packBytesRange(array, 1, Len(array.elems))))

packBytes(array, hasOnError, supported) ==
  IF supported
    THEN Then(packBytesHeader(Len(array.elems), hasOnError), Wrote(packBytesRange(array, 1, Len(array.elems))))
    ELSE OnError(hasOnError,
                 "Byte arrays are not supported by the database this driver is connected to",
                 NoCode)

\* faulty variant: the tiny class is taken up to and including 16
packMapHeader_offByOne(size, hasOnError) ==
  IF size <= 16 THEN Wrote(writeUInt8(BitOr(TINY_MAP, size)))
  ELSE IF size < 256 THEN Wrote(writeUInt8(MAP_8) \o writeUInt8(size))
  ELSE IF size < 65536
    THEN Wrote(writeUInt8(MAP_16) \o writeUInt8(DivShr0(size, 256)) \o writeUInt8(size % 256))
  ELSE Wrote(writeUInt8(MAP_32)
             \o writeUInt8(DivShr0(size, 16777216) % 256)
             \o writeUInt8(DivShr0(size, 65536) % 256)
             \o writeUInt8(DivShr0(size, 256) % 256)
             \o writeUInt8(size % 256))

packMapHeader(size, hasOnError) ==
  IF size < 16 THEN Wrote(writeUInt8(BitOr(TINY_MAP, size)))
  ELSE IF size < 256 THEN Wrote(writeUInt8(MAP_8) \o writeUInt8(size))
  ELSE IF size < 65536
    THEN Wrote(writeUInt8(MAP_16) \o writeUInt8(DivShr0(size, 256)) \o writeUInt8(size % 256))
  ELSE IF Below2Pow32(size)
    THEN Wrote(writeUInt8(MAP_32)
               \o writeUInt8(DivShr0(size, 16777216) % 256)
               \o writeUInt8(DivShr0(size, 65536) % 256)
               \o writeUInt8(DivShr0(size, 256) % 256)
               \o writeUInt8(size % 256))
  ELSE OnError(hasOnError, "Maps of size are not supported", NoCode)

packStructHeader(size, signature, hasOnError) ==
  IF size < 16
    THEN Wrote(writeUInt8(BitOr(TINY_STRUCT, size)) \o writeUInt8(signature))
  ELSE IF size < 256
    THEN Wrote(writeUInt8(STRUCT_8) \o writeUInt8(size) \o writeUInt8(signature))
  ELSE IF size < 65536
    THEN Wrote(writeUInt8(STRUCT_16) \o writeUInt8(DivShr0(size, 256)) \o writeUInt8(size % 256))
  ELSE OnError(hasOnError, "Structures of size are not supported", NoCode)

\* _nonPackableValue: onError is called when the continuation is made, and
\* the continuation does nothing
Packable(made, callable, body) == [made |-> made, callable |-> callable, run |-> body]

\* faulty variant: the continuation writes a null in place of the value
nonPackableValue_null(message, hasOnError) ==
  Packable(IF hasOnError THEN OnError(TRUE, message, PROTOCOL_ERROR) ELSE Nothing,
           TRUE, Wrote(writeUInt8(NULL)))

nonPackableValue(message, hasOnError) ==
  Packable(IF hasOnError THEN OnError(TRUE, message, PROTOCOL_ERROR) ELSE Nothing,
           TRUE, Nothing)

\* calling a continuation: packable(...)()
CallPackable(p) ==
  IF p.callable THEN p.run ELSE Effect(<< >>, << >>, << TypeError >>)

\* Object.keys(x): array-index keys in ascending numeric order, then the
\* other keys in insertion order (keys of at most 9 digits are told apart)
IsArrayIndex(key) ==
  /\ Len(key.cp) >= 1
  /\ Len(key.cp) <= 9
  /\ \A i \in 1..Len(key.cp) : key.cp[i] >= 48 /\ key.cp[i] <= 57
  /\ (Len(key.cp) > 1 => key.cp[1] # 48)

RECURSIVE IndexValueFrom(_, _, _)
IndexValueFrom(cp, i, acc) ==
  IF i > Len(cp) THEN acc ELSE IndexValueFrom(cp, i + 1, acc * 10 + (cp[i] - 48))

IndexValue(key) == IndexValueFrom(key.cp, 1, 0)

RECURSIVE SortIndexKeys(_)
SortIndexKeys(keys) ==
  IF keys = {} THEN << >>
  ELSE LET least == CHOOSE k \in keys : \A o \in keys : IndexValue(k) <= IndexValue(o)
       IN << least >> \o SortIndexKeys(keys \ {least})

\* faulty variant: every key in insertion order
Object_keys_insertionOrder(x) == [i \in 1..Len(x.props) |-> x.props[i].key]

Object_keys(x) ==
  LET all == [i \in 1..Len(x.props) |-> x.props[i].key]
  IN SortIndexKeys({ all[i] : i \in { j \in 1..Len(all) : IsArrayIndex(all[j]) } })
       \o SelectSeq(all, LAMBDA k : ~IsArrayIndex(k))

\* x[key]
Object_get(x, key) ==
  LET i == CHOOSE j \in 1..Len(x.props) : x.props[j].key = key
  IN x.props[i].value

\* an UnboundRelationship is an instance of none of the classes packable
\* tests for: it is an object with its own properties identity, type and
\* properties
OwnProperties(x) ==
  IF x.t = "UnboundRelationship"
    THEN Object(<< Prop(String(<< 105, 100, 101, 110, 116, 105, 116, 121 >>), x.identity),
                   Prop(String(<< 116, 121, 112, 101 >>), x.type),
                   Prop(String(<< 112, 114, 111, 112, 101, 114, 116, 105, 101, 115 >>),
                        x.properties) >>)
  ELSE x

RECURSIVE packable(_, _, _)
RECURSIVE packItemsRange(_, _, _, _, _)
RECURSIVE packPropsRange(_, _, _, _, _, _)
RECURSIVE makeFieldsRange(_, _, _, _, _)
RECURSIVE callFieldsRange(_, _, _, _, _)

\* The loops below run their body for i = lo, ..., hi in that order; a range
\* of more than one index is its two halves one after the other.

\* for (i...) this.packable(x[i] === undefined ? null : x[i], onError)()
packItemsRange(items, lo, hi, hasOnError, supported) ==
  IF lo > hi THEN Nothing
  ELSE IF lo = hi
    THEN LET p == packable(IF items[lo].t = "undefined" THEN Null ELSE items[lo],
                           hasOnError, supported)
         IN Then(p.made, CallPackable(p))
  ELSE LET mid == (lo + hi) \div 2
       IN Then(packItemsRange(items, lo, mid, hasOnError, supported),
               packItemsRange(items, mid + 1, hi, hasOnError, supported))

\* for (i...) if (x[key] !== undefined) { packString(key); packable(x[key], onError)() }
packPropsRange(x, keys, lo, hi, hasOnError, supported) ==
  IF lo > hi THEN Nothing
  ELSE IF lo = hi
    THEN LET key == keys[lo]
             value == Object_get(x, key)
         IN IF value.t # "undefined"
              THEN LET p == packable(value, hasOnError, supported)
                   IN Then(packString(key, FALSE), Then(p.made, CallPackable(p)))
              ELSE Nothing
  ELSE LET mid == (lo + hi) \div 2
       IN Then(packPropsRange(x, keys, lo, mid, hasOnError, supported),
               packPropsRange(x, keys, mid + 1, hi, hasOnError, supported))

\* for (i...) packableFields[i] = this.packable(x.fields[i], onError)
makeFieldsRange(fields, lo, hi, hasOnError, supported) ==
  IF lo > hi THEN Nothing
  ELSE IF lo = hi THEN packable(fields[lo], hasOnError, supported).made
  ELSE LET mid == (lo + hi) \div 2
       IN Then(makeFieldsRange(fields, lo, mid, hasOnError, supported),
               makeFieldsRange(fields, mid + 1, hi, hasOnError, supported))

\* for (i...) packableFields[i]()
callFieldsRange(fields, lo, hi, hasOnError, supported) ==
  IF lo > hi THEN Nothing
  ELSE IF lo = hi THEN CallPackable(packable(fields[lo], hasOnError, supported))
  ELSE LET mid == (lo + hi) \div 2
       IN Then(callFieldsRange(fields, lo, mid, hasOnError, supported),
               callFieldsRange(fields, mid + 1, hi, hasOnError, supported))

packable(x, hasOnError, supported) ==
  IF x.t = "null" THEN Packable(Nothing, TRUE, Wrote(writeUInt8(NULL)))
  ELSE IF x.t = "boolean" /\ x.b THEN Packable(Nothing, TRUE, Wrote(writeUInt8(TRUE_MARKER)))
  ELSE IF x.t = "boolean" THEN Packable(Nothing, TRUE, Wrote(writeUInt8(FALSE_MARKER)))
  ELSE IF x.t = "number" THEN Packable(Nothing, TRUE, packFloat(x))
  ELSE IF x.t = "string" THEN Packable(Nothing, TRUE, packString(x, hasOnError))
  ELSE IF isInt(x) THEN Packable(Nothing, TRUE, packInteger(x))
  ELSE IF x.t = "Int8Array" THEN Packable(Nothing, TRUE, packBytes(x, hasOnError, supported))
  ELSE IF x.t = "Array"
    THEN Packable(Nothing, TRUE,
                  Then(packListHeader(Len(x.items), hasOnError),
                       packItemsRange(x.items, 1, Len(x.items), hasOnError, supported)))
  ELSE IF x.t = "iterable"
    THEN \* packableIterable
         IF x.fails
           THEN Packable(OnError(hasOnError, "Cannot pack given iterable", NoCode), FALSE, Nothing)
           ELSE packable(Array(x.items), hasOnError, supported)
  ELSE IF x.t = "Node"
    THEN nonPackableValue("It is not allowed to pass nodes in query parameters", hasOnError)
  ELSE IF x.t = "Relationship"
    THEN nonPackableValue("It is not allowed to pass relationships in query parameters", hasOnError)
  ELSE IF x.t = "Path"
    THEN nonPackableValue("It is not allowed to pass paths in query parameters", hasOnError)
  ELSE IF x.t = "Structure"
    THEN Packable(makeFieldsRange(x.fields, 1, Len(x.fields), hasOnError, supported), TRUE,
                  \* packStruct(x.signature, packableFields)
                  Then(packStructHeader(Len(x.fields), x.signature, FALSE),
                       callFieldsRange(x.fields, 1, Len(x.fields), hasOnError, supported)))
  ELSE IF x.t \in {"Object", "UnboundRelationship"}
    THEN LET o == OwnProperties(x)
             keys == Object_keys(o)
             count == Len(SelectSeq(keys, LAMBDA k : Object_get(o, k).t # "undefined"))
         IN Packable(Nothing, TRUE,
                     Then(packMapHeader(count, hasOnError),
                          packPropsRange(o, keys, 1, Len(keys), hasOnError, supported)))
  ELSE nonPackableValue("Unable to pack the given value", hasOnError)

\* this.packable(x, onError)()
pack(x, hasOnError, supported) ==
  LET p == packable(x, hasOnError, supported)
  IN Then(p.made, CallPackable(p))

(***************************************************************************)
(* The read side of the channel: a buffer and a read position              *)
(***************************************************************************)
Has(buf, pos, n) == pos + n - 1 <= Len(buf)

readUInt8(buf, pos) == buf[pos]

readInt8(buf, pos) == IF buf[pos] >= 128 THEN buf[pos] - 256 ELSE buf[pos]

readUInt16(buf, pos) == buf[pos] * 256 + buf[pos + 1]

readInt16(buf, pos) == readInt8(buf, pos) * 256 + buf[pos + 1]

readInt32(buf, pos) ==
  readInt8(buf, pos) * 16777216 + buf[pos + 1] * 65536 + buf[pos + 2] * 256 + buf[pos + 3]

\* sizes of 2^31 and more exceed every buffer: they are read as the largest size
readUInt32(buf, pos) ==
  IF buf[pos] >= 128 THEN 2147483647
  ELSE buf[pos] * 16777216 + buf[pos + 1] * 65536 + buf[pos + 2] * 256 + buf[pos + 3]

readFloat64(buf, pos) == Number(SubSeq(buf, pos, pos + 7))

\* utf8.decode of one character at buf[from], not reading past buf[to]: an
\* ill-formed byte decodes to U+FFFD
utf8_decodeChar(buf, from, to) ==
  LET b == buf[from]
      cont(k) == from + k <= to /\ buf[from + k] >= 128 /\ buf[from + k] < 192
  IN IF b < 128 THEN [cp |-> << b >>, next |-> from + 1]
     ELSE IF b >= 192 /\ b < 224 /\ cont(1)
       THEN [cp |-> << (b - 192) * 64 + (buf[from + 1] - 128) >>, next |-> from + 2]
     ELSE IF b >= 224 /\ b < 240 /\ cont(1) /\ cont(2)
       THEN [cp |-> << (b - 224) * 4096 + (buf[from + 1] - 128) * 64 + (buf[from + 2] - 128) >>,
             next |-> from + 3]
     ELSE IF b >= 240 /\ b < 248 /\ cont(1) /\ cont(2) /\ cont(3)
       THEN [cp |-> << (b - 240) * 262144 + (buf[from + 1] - 128) * 4096
                       + (buf[from + 2] - 128) * 64 + (buf[from + 3] - 128) >>,
             next |-> from + 4]
     ELSE [cp |-> << 65533 >>, next |-> from + 1]

\* at most k characters decoded one after the other from buf[from] on, not
\* reading past buf[to]
RECURSIVE utf8_decodeChars(_, _, _, _)
utf8_decodeChars(buf, from, to, k) ==
  IF from > to \/ k = 0 THEN [cp |-> << >>, next |-> from]
  ELSE IF k = 1 THEN utf8_decodeChar(buf, from, to)
  ELSE LET a == utf8_decodeChars(buf, from, to, k \div 2)
           b == utf8_decodeChars(buf, a.next, to, k - (k \div 2))
       IN [cp |-> a.cp \o b.cp, next |-> b.next]

utf8_decodeRange(buf, from, to) == utf8_decodeChars(buf, from, to, to - from + 1).cp

(***************************************************************************)
(* Results of Unpacker code: the value, the next read position and the     *)
(* error thrown (<<>> when it returned)                                    *)
(***************************************************************************)
Result(val, pos) == [val |-> val, pos |-> pos, err |-> << >>]

Thrown(error, pos) == [val |-> Null, pos |-> pos, err |-> << error >>]

\* "not my marker"
NotMine(pos) == [val |-> Null, pos |-> pos, err |-> << >>, none |-> TRUE]

IsNotMine(r) == "none" \in DOMAIN r

\* reading past the end of the buffer
RangeError(pos) == Thrown([message |-> "RangeError", code |-> NoCode, detail |-> << >>], pos)

\* a TypeError raised by the host language
JsTypeError == [message |-> "TypeError", code |-> NoCode, detail |-> << >>]

\* faulty variant: the radix is left out, the number is written in decimal
RECURSIVE toString10(_)
toString10(n) ==
  LET digits == << "0", "1", "2", "3", "4", "5", "6", "7", "8", "9" >>
  IN IF n < 10 THEN << digits[n + 1] >>
     ELSE toString10(n \div 10) \o << digits[(n % 10) + 1] >>

\* marker.toString(16): the digits of a non-negative number in base 16
RECURSIVE toString16(_)
toString16(n) ==
  LET digits == << "0", "1", "2", "3", "4", "5", "6", "7", "8", "9",
                   "a", "b", "c", "d", "e", "f" >>
  IN IF n < 16 THEN << digits[n + 1] >>
     ELSE toString16(n \div 16) \o << digits[(n % 16) + 1] >>

\* newError('Unknown packed value with marker ' + marker.toString(16))
UnknownMarker(marker, pos) ==
  Thrown([message |-> "Unknown packed value with marker", code |-> NoCode,
          detail |-> toString16(marker)], pos)

\* utf8.decode(buffer, length)
utf8_decode(buf, pos, length) ==
  IF ~Has(buf, pos, length) THEN RangeError(pos)
  ELSE Result(String(utf8_decodeRange(buf, pos, pos + length - 1)), pos + length)

\* Integer.toNumberOrInfinity: out of the safe range -(2^53-1)..2^53-1 it is
\* -Infinity or Infinity
MAX_SAFE_INTEGER == Integer(-1, 2097151)

MIN_SAFE_INTEGER == Integer(1, -2097152)

toNumberOrInfinity(x) ==
  IF Integer_lessThan(x, MIN_SAFE_INTEGER) THEN [t |-> "number", infinite |-> -1]
  ELSE IF Integer_lessThan(MAX_SAFE_INTEGER, x) THEN [t |-> "number", infinite |-> 1]
  ELSE [t |-> "number", high |-> x.high, low |-> x.low]

(***************************************************************************)
(* Graph types                                                             *)
(***************************************************************************)
Node(identity, labels, properties) ==
  [t |-> "Node", identity |-> identity, labels |-> labels, properties |-> properties]

Relationship(identity, start, end, type, properties) ==
  [t |-> "Relationship", identity |-> identity, start |-> start, end |-> end,
   type |-> type, properties |-> properties]

UnboundRelationship(identity, type, properties) ==
  [t |-> "UnboundRelationship", identity |-> identity, type |-> type,
   properties |-> properties]

\* UnboundRelationship.bind(start, end)
bind(rel, start, end) == Relationship(rel.identity, start, end, rel.type, rel.properties)

PathSegment(start, rel, end) == [start |-> start, relationship |-> rel, end |-> end]

Path(start, end, segments) ==
  [t |-> "Path", start |-> start, end |-> end, segments |-> segments]

(***************************************************************************)
(* Unpacker                                                                *)
(***************************************************************************)
WrongStructSize(structName, expectedSize, actualSize, pos) ==
  Thrown([message |-> "Wrong struct size for " \o structName, code |-> PROTOCOL_ERROR,
          detail |-> << expectedSize, actualSize >>], pos)

\* faulty variant: only a struct with too few fields is refused
verifyStructSizeThrows_tooFew(expectedSize, actualSize) == expectedSize > actualSize

\* _verifyStructSize: TRUE when it throws
verifyStructSizeThrows(expectedSize, actualSize) == expectedSize # actualSize

\* faulty variant: the byte 01 is taken for true as well
unpackBoolean_truthy(marker, pos) ==
  IF marker = TRUE_MARKER \/ marker = 1 THEN Result(Bool(TRUE), pos)
  ELSE IF marker = FALSE_MARKER THEN Result(Bool(FALSE), pos)
  ELSE NotMine(pos)

unpackBoolean(marker, pos) ==
  IF marker = TRUE_MARKER THEN Result(Bool(TRUE), pos)
  ELSE IF marker = FALSE_MARKER THEN Result(Bool(FALSE), pos)
  ELSE NotMine(pos)

\* _unpackBlob: readInt64, four UInt16 (length and mime type), eight UInt16 (id)
unpackBlob(marker, buf, pos) ==
  IF marker = 196 \/ marker = 197
    THEN IF ~Has(buf, pos, 32) THEN RangeError(pos)
         ELSE Result([t |-> "blob",
                      l2 |-> [i \in 1..4 |-> readUInt16(buf, pos + 8 + 2 * (i - 1))],
                      vv |-> [i \in 1..8 |-> readUInt16(buf, pos + 16 + 2 * (i - 1))]],
                     pos + 32)
    ELSE NotMine(pos)

\* faulty variant: the words of INT_64 are taken low word first
unpackInteger_lowFirst(marker, buf, pos) ==
  IF marker >= 0 /\ marker < 128 THEN Result(int(marker), pos)
  ELSE IF marker >= 240 /\ marker < 256 THEN Result(int(marker - 256), pos)
  ELSE IF marker = INT_8
    THEN IF Has(buf, pos, 1) THEN Result(int(readInt8(buf, pos)), pos + 1) ELSE RangeError(pos)
  ELSE IF marker = INT_16
    THEN IF Has(buf, pos, 2) THEN Result(int(readInt16(buf, pos)), pos + 2) ELSE RangeError(pos)
  ELSE IF marker = INT_32
    THEN IF Has(buf, pos, 4) THEN Result(int(readInt32(buf, pos)), pos + 4) ELSE RangeError(pos)
  ELSE IF marker = INT_64
    THEN IF Has(buf, pos, 8)
           THEN LET low == readInt32(buf, pos)
                    high == readInt32(buf, pos + 4)
                IN Result(Integer(low, high), pos + 8)
           ELSE RangeError(pos)
  ELSE NotMine(pos)

unpackInteger(marker, buf, pos) ==
  IF marker >= 0 /\ marker < 128 THEN Result(int(marker), pos)
  ELSE IF marker >= 240 /\ marker < 256 THEN Result(int(marker - 256), pos)
  ELSE IF marker = INT_8
    THEN IF Has(buf, pos, 1) THEN Result(int(readInt8(buf, pos)), pos + 1) ELSE RangeError(pos)
  ELSE IF marker = INT_16
    THEN IF Has(buf, pos, 2) THEN Result(int(readInt16(buf, pos)), pos + 2) ELSE RangeError(pos)
  ELSE IF marker = INT_32
    THEN IF Has(buf, pos, 4) THEN Result(int(readInt32(buf, pos)), pos + 4) ELSE RangeError(pos)
  ELSE IF marker = INT_64
    THEN IF Has(buf, pos, 8)
           THEN LET high == readInt32(buf, pos)
                    low == readInt32(buf, pos + 4)
                IN Result(Integer(low, high), pos + 8)
           ELSE RangeError(pos)
  ELSE NotMine(pos)

unpackNumberOrInteger(marker, buf, pos) ==
  IF marker = FLOAT_64
    THEN IF Has(buf, pos, 8) THEN Result(readFloat64(buf, pos), pos + 8) ELSE RangeError(pos)
    ELSE unpackInteger(marker, buf, pos)

unpackString(marker, markerHigh, markerLow, buf, pos) ==
  IF markerHigh = TINY_STRING THEN utf8_decode(buf, pos, markerLow)
  ELSE IF marker = STRING_8
    THEN IF Has(buf, pos, 1) THEN utf8_decode(buf, pos + 1, readUInt8(buf, pos))
         ELSE RangeError(pos)
  ELSE IF marker = STRING_16
    THEN IF Has(buf, pos, 2) THEN utf8_decode(buf, pos + 2, readUInt16(buf, pos))
         ELSE RangeError(pos)
  ELSE IF marker = STRING_32
    THEN IF Has(buf, pos, 4) THEN utf8_decode(buf, pos + 4, readUInt32(buf, pos))
         ELSE RangeError(pos)
  ELSE NotMine(pos)

\* for (i...) value[i] = buffer.readInt8()
unpackByteArrayFrom(buf, pos, n) == [i \in 1..n |-> readInt8(buf, pos + i - 1)]

unpackByteArrayWithSize(size, buf, pos) ==
  IF ~Has(buf, pos, size) THEN RangeError(pos)
  ELSE Result(Int8Array(unpackByteArrayFrom(buf, pos, size)), pos + size)

unpackByteArray(marker, buf, pos) ==
  IF marker = BYTES_8
    THEN IF Has(buf, pos, 1) THEN unpackByteArrayWithSize(readUInt8(buf, pos), buf, pos + 1)
         ELSE RangeError(pos)
  ELSE IF marker = BYTES_16
    THEN IF Has(buf, pos, 2) THEN unpackByteArrayWithSize(readUInt16(buf, pos), buf, pos + 2)
         ELSE RangeError(pos)
  ELSE IF marker = BYTES_32
    THEN IF Has(buf, pos, 4) THEN unpackByteArrayWithSize(readUInt32(buf, pos), buf, pos + 4)
         ELSE RangeError(pos)
  ELSE NotMine(pos)

\* value[key] = v for each <<key, v>> of pairs in order, on an empty plain
\* object: a key stands where it was first set and holds what was set last
Object_setAll(pairs) ==
  LET n == Len(pairs)
      first == SelectSeq([i \in 1..n |-> i],
                         LAMBDA i : \A j \in 1..(i - 1) : pairs[j].key # pairs[i].key)
      last(key) == CHOOSE j \in 1..n :
                     /\ pairs[j].key = key
                     /\ \A k \in (j + 1)..n : pairs[k].key # key
  IN [m \in 1..Len(first) |->
        Prop(pairs[first[m]].key, pairs[last(pairs[first[m]].key)].value)]

\* a property key that is not a string is converted to one
ToPropertyKey(k) == IF k.t = "string" THEN k ELSE [t |-> "string", of |-> k]

\* the numeric value of an Integer or native number used as an index, when it
\* is in the 32-bit range
IsIndexable(v) ==
  /\ v.t \in {"Integer", "number"}
  /\ "low" \in DOMAIN v
  /\ v.high = (IF v.low < 0 THEN -1 ELSE 0)

\* array[n]
ArrayAt(array, n) ==
  IF n >= 0 /\ n < Len(array.items) THEN array.items[n + 1] ELSE Undefined

\* x.identity
Identity(x) == IF "identity" \in DOMAIN x THEN x.identity ELSE Undefined

HasNoProperties(x) == x.t \in {"undefined", "null"}

\* faulty variant: a relationship already bound is bound again by every
\* segment that takes it
RECURSIVE hydrateFrom_rebinding(_, _, _, _, _, _)
hydrateFrom_rebinding(nodes, rels, sequence, i, segments, prevNode) ==
  IF i >= Len(sequence.items)
    THEN [rels |-> rels, segments |-> segments, err |-> << >>]
  ELSE
    LET nodeIndex == ArrayAt(sequence, i + 1)
        nextNode == IF IsIndexable(nodeIndex) THEN ArrayAt(nodes, nodeIndex.low) ELSE Undefined
        relIndex == sequence.items[i + 1]
        forward == IsIndexable(relIndex) /\ relIndex.low > 0
        slot == IF ~IsIndexable(relIndex) THEN -1
                ELSE IF forward THEN relIndex.low - 1 ELSE (0 - relIndex.low) - 1
        found == ArrayAt(rels, slot)
        unbound == found.t \in {"UnboundRelationship", "Relationship"}
        rel == IF ~unbound THEN found
               ELSE IF forward THEN bind(found, Identity(prevNode), Identity(nextNode))
               ELSE bind(found, Identity(nextNode), Identity(prevNode))
        rebound == IF unbound
                     THEN Array([k \in 1..Len(rels.items) |->
                                   IF k = slot + 1 THEN rel ELSE rels.items[k]])
                     ELSE rels
    IN IF unbound /\ (HasNoProperties(prevNode) \/ HasNoProperties(nextNode))
         THEN [rels |-> rels, segments |-> segments, err |-> << TypeError >>]
         ELSE hydrateFrom_rebinding(nodes, rebound, sequence, i + 2,
                          Append(segments, PathSegment(prevNode, rel, nextNode)), nextNode)

\* faulty variant: a relationship walked backwards is bound like one walked
\* forwards
RECURSIVE hydrateFrom_unreversed(_, _, _, _, _, _)
hydrateFrom_unreversed(nodes, rels, sequence, i, segments, prevNode) ==
  IF i >= Len(sequence.items)
    THEN [rels |-> rels, segments |-> segments, err |-> << >>]
  ELSE
    LET nodeIndex == ArrayAt(sequence, i + 1)
        nextNode == IF IsIndexable(nodeIndex) THEN ArrayAt(nodes, nodeIndex.low) ELSE Undefined
        relIndex == sequence.items[i + 1]
        forward == IsIndexable(relIndex) /\ relIndex.low > 0
        slot == IF ~IsIndexable(relIndex) THEN -1
                ELSE IF forward THEN relIndex.low - 1 ELSE (0 - relIndex.low) - 1
        found == ArrayAt(rels, slot)
        unbound == found.t = "UnboundRelationship"
        rel == IF ~unbound THEN found
               ELSE IF forward THEN bind(found, Identity(prevNode), Identity(nextNode))
               ELSE bind(found, Identity(prevNode), Identity(nextNode))
        rebound == IF unbound
                     THEN Array([k \in 1..Len(rels.items) |->
                                   IF k = slot + 1 THEN rel ELSE rels.items[k]])
                     ELSE rels
    IN IF unbound /\ (HasNoProperties(prevNode) \/ HasNoProperties(nextNode))
         THEN [rels |-> rels, segments |-> segments, err |-> << TypeError >>]
         ELSE hydrateFrom_unreversed(nodes, rebound, sequence, i + 2,
                          Append(segments, PathSegment(prevNode, rel, nextNode)), nextNode)

\* the loop of _unpackPath from pair i on: rels as rebound so far, the
\* segments pushed so far and the previous node
RECURSIVE hydrateFrom(_, _, _, _, _, _)
hydrateFrom(nodes, rels, sequence, i, segments, prevNode) ==
  IF i >= Len(sequence.items)
    THEN [rels |-> rels, segments |-> segments, err |-> << >>]
  ELSE
    LET nodeIndex == ArrayAt(sequence, i + 1)
        nextNode == IF IsIndexable(nodeIndex) THEN ArrayAt(nodes, nodeIndex.low) ELSE Undefined
        relIndex == sequence.items[i + 1]
        forward == IsIndexable(relIndex) /\ relIndex.low > 0
        slot == IF ~IsIndexable(relIndex) THEN -1
                ELSE IF forward THEN relIndex.low - 1 ELSE (0 - relIndex.low) - 1
        found == ArrayAt(rels, slot)
        unbound == found.t = "UnboundRelationship"
        rel == IF ~unbound THEN found
               ELSE IF forward THEN bind(found, Identity(prevNode), Identity(nextNode))
               ELSE bind(found, Identity(nextNode), Identity(prevNode))
        rebound == IF unbound
                     THEN Array([k \in 1..Len(rels.items) |->
                                   IF k = slot + 1 THEN rel ELSE rels.items[k]])
                     ELSE rels
    IN IF unbound /\ (HasNoProperties(prevNode) \/ HasNoProperties(nextNode))
         THEN [rels |-> rels, segments |-> segments, err |-> << TypeError >>]
         ELSE hydrateFrom(nodes, rebound, sequence, i + 2,
                          Append(segments, PathSegment(prevNode, rel, nextNode)), nextNode)

RECURSIVE unpack(_, _, _)
RECURSIVE unpackMany(_, _, _, _)
RECURSIVE unpackPairs(_, _, _, _)

\* n values read one after the other from pos on: the first half of them,
\* then the others from where the first half ended
unpackMany(buf, pos, n, dli) ==
  IF n = 0 THEN Result(<< >>, pos)
  ELSE IF n = 1
    THEN LET r == unpack(buf, pos, dli)
         IN IF r.err # << >> THEN r ELSE Result(<< r.val >>, r.pos)
  ELSE LET a == unpackMany(buf, pos, n \div 2, dli)
       IN IF a.err # << >> THEN a
          ELSE LET b == unpackMany(buf, a.pos, n - (n \div 2), dli)
               IN IF b.err # << >> THEN b ELSE Result(a.val \o b.val, b.pos)

\* n key/value pairs read one after the other from pos on
unpackPairs(buf, pos, n, dli) ==
  IF n = 0 THEN Result(<< >>, pos)
  ELSE IF n = 1
    THEN LET k == unpack(buf, pos, dli)
         IN IF k.err # << >> THEN k
            ELSE LET v == unpack(buf, k.pos, dli)
                 IN IF v.err # << >> THEN v
                    ELSE Result(<< Prop(ToPropertyKey(k.val), v.val) >>, v.pos)
  ELSE LET a == unpackPairs(buf, pos, n \div 2, dli)
       IN IF a.err # << >> THEN a
          ELSE LET b == unpackPairs(buf, a.pos, n - (n \div 2), dli)
               IN IF b.err # << >> THEN b ELSE Result(a.val \o b.val, b.pos)

unpackListWithSize(size, buf, pos, dli) ==
  LET r == unpackMany(buf, pos, size, dli)
  IN IF r.err # << >> THEN r ELSE Result(Array(r.val), r.pos)

unpackList(marker, markerHigh, markerLow, buf, pos, dli) ==
  IF markerHigh = TINY_LIST THEN unpackListWithSize(markerLow, buf, pos, dli)
  ELSE IF marker = LIST_8
    THEN IF Has(buf, pos, 1) THEN unpackListWithSize(readUInt8(buf, pos), buf, pos + 1, dli)
         ELSE RangeError(pos)
  ELSE IF marker = LIST_16
    THEN IF Has(buf, pos, 2) THEN unpackListWithSize(readUInt16(buf, pos), buf, pos + 2, dli)
         ELSE RangeError(pos)
  ELSE IF marker = LIST_32
    THEN IF Has(buf, pos, 4) THEN unpackListWithSize(readUInt32(buf, pos), buf, pos + 4, dli)
         ELSE RangeError(pos)
  ELSE NotMine(pos)

unpackMapWithSize(size, buf, pos, dli) ==
  LET r == unpackPairs(buf, pos, size, dli)
  IN IF r.err # << >> THEN r ELSE Result(Object(Object_setAll(r.val)), r.pos)

unpackMap(marker, markerHigh, markerLow, buf, pos, dli) ==
  IF markerHigh = TINY_MAP THEN unpackMapWithSize(markerLow, buf, pos, dli)
  ELSE IF marker = MAP_8
    THEN IF Has(buf, pos, 1) THEN unpackMapWithSize(readUInt8(buf, pos), buf, pos + 1, dli)
         ELSE RangeError(pos)
  ELSE IF marker = MAP_16
    THEN IF Has(buf, pos, 2) THEN unpackMapWithSize(readUInt16(buf, pos), buf, pos + 2, dli)
         ELSE RangeError(pos)
  ELSE IF marker = MAP_32
    THEN IF Has(buf, pos, 4) THEN unpackMapWithSize(readUInt32(buf, pos), buf, pos + 4, dli)
         ELSE RangeError(pos)
  ELSE NotMine(pos)

unpackNode(structSize, buf, pos, dli) ==
  IF verifyStructSizeThrows(NODE_STRUCT_SIZE, structSize)
    THEN WrongStructSize("Node", NODE_STRUCT_SIZE, structSize, pos)
  ELSE LET r == unpackMany(buf, pos, 3, dli)
       IN IF r.err # << >> THEN r
          ELSE Result(Node(r.val[1], r.val[2], r.val[3]), r.pos)

unpackRelationship(structSize, buf, pos, dli) ==
  IF verifyStructSizeThrows(RELATIONSHIP_STRUCT_SIZE, structSize)
    THEN WrongStructSize("Relationship", RELATIONSHIP_STRUCT_SIZE, structSize, pos)
  ELSE LET r == unpackMany(buf, pos, 5, dli)
       IN IF r.err # << >> THEN r
          ELSE Result(Relationship(r.val[1], r.val[2], r.val[3], r.val[4], r.val[5]), r.pos)

unpackUnboundRelationship(structSize, buf, pos, dli) ==
  IF verifyStructSizeThrows(UNBOUND_RELATIONSHIP_STRUCT_SIZE, structSize)
    THEN WrongStructSize("UnboundRelationship", UNBOUND_RELATIONSHIP_STRUCT_SIZE, structSize, pos)
  ELSE LET r == unpackMany(buf, pos, 3, dli)
       IN IF r.err # << >> THEN r
          ELSE Result(UnboundRelationship(r.val[1], r.val[2], r.val[3]), r.pos)

\* _unpackPath, for nodes, rels and sequence that are lists
unpackPath(structSize, buf, pos, dli) ==
  IF verifyStructSizeThrows(PATH_STRUCT_SIZE, structSize)
    THEN WrongStructSize("Path", PATH_STRUCT_SIZE, structSize, pos)
  ELSE LET r == unpackMany(buf, pos, 3, dli)
       IN IF r.err # << >> THEN r
          ELSE LET nodes == r.val[1]
                   rels == r.val[2]
                   sequence == r.val[3]
               IN IF nodes.t # "Array" \/ rels.t # "Array" \/ sequence.t # "Array"
                    THEN Thrown(JsTypeError, r.pos)
                    ELSE LET h == hydrateFrom(nodes, rels, sequence, 0, << >>,
                                              ArrayAt(nodes, 0))
                         IN IF h.err # << >> THEN Thrown(JsTypeError, r.pos)
                            ELSE Result(Path(ArrayAt(nodes, 0),
                                             ArrayAt(nodes, Len(nodes.items) - 1),
                                             h.segments), r.pos)

unpackUnknownStruct(signature, structSize, buf, pos, dli) ==
  LET r == unpackMany(buf, pos, structSize, dli)
  IN IF r.err # << >> THEN r ELSE Result(Structure(signature, r.val), r.pos)

unpackStructWithSize(structSize, buf, pos, dli) ==
  IF ~Has(buf, pos, 1) THEN RangeError(pos)
  ELSE LET signature == readUInt8(buf, pos)
       IN IF signature = NODE THEN unpackNode(structSize, buf, pos + 1, dli)
          ELSE IF signature = RELATIONSHIP THEN unpackRelationship(structSize, buf, pos + 1, dli)
          ELSE IF signature = UNBOUND_RELATIONSHIP
            THEN unpackUnboundRelationship(structSize, buf, pos + 1, dli)
          ELSE IF signature = PATH THEN unpackPath(structSize, buf, pos + 1, dli)
          ELSE unpackUnknownStruct(signature, structSize, buf, pos + 1, dli)

unpackStruct(marker, markerHigh, markerLow, buf, pos, dli) ==
  IF markerHigh = TINY_STRUCT THEN unpackStructWithSize(markerLow, buf, pos, dli)
  ELSE IF marker = STRUCT_8
    THEN IF Has(buf, pos, 1) THEN unpackStructWithSize(readUInt8(buf, pos), buf, pos + 1, dli)
         ELSE RangeError(pos)
  ELSE IF marker = STRUCT_16
    THEN IF Has(buf, pos, 2) THEN unpackStructWithSize(readUInt16(buf, pos), buf, pos + 2, dli)
         ELSE RangeError(pos)
  ELSE NotMine(pos)

\* unpack(buffer) for the Unpacker built with disableLosslessIntegers = dli
unpack(buf, pos, dli) ==
  IF ~Has(buf, pos, 1) THEN RangeError(pos)
  ELSE
    LET marker == readUInt8(buf, pos)
        markerHigh == BitAnd(marker, 240)
        markerLow == BitAnd(marker, 15)
        p == pos + 1
        boolean == unpackBoolean(marker, p)
        blob == unpackBlob(marker, buf, p)
        numberOrInteger == unpackNumberOrInteger(marker, buf, p)
        string == unpackString(marker, markerHigh, markerLow, buf, p)
        list == unpackList(marker, markerHigh, markerLow, buf, p, dli)
        byteArray == unpackByteArray(marker, buf, p)
        map == unpackMap(marker, markerHigh, markerLow, buf, p, dli)
        struct == unpackStruct(marker, markerHigh, markerLow, buf, p, dli)
    IN IF marker = NULL THEN Result(Null, p)
       ELSE IF ~IsNotMine(boolean) THEN boolean
       ELSE IF ~IsNotMine(blob) THEN blob
       ELSE IF ~IsNotMine(numberOrInteger)
         THEN IF numberOrInteger.err = << >> /\ dli /\ isInt(numberOrInteger.val)
                THEN Result(toNumberOrInfinity(numberOrInteger.val), numberOrInteger.pos)
                ELSE numberOrInteger
       ELSE IF ~IsNotMine(string) THEN string
       ELSE IF ~IsNotMine(list) THEN list
       ELSE IF ~IsNotMine(byteArray) THEN byteArray
       ELSE IF ~IsNotMine(map) THEN map
       ELSE IF ~IsNotMine(struct) THEN struct
       ELSE UnknownMarker(marker, p)

(***************************************************************************)
(* The facade as a state machine                                           *)
(***************************************************************************)
NoCall == [op |-> "none", from |-> 0, thrown |-> <<>>]

NoOp == [name |-> "none"]

NoRes == [done |-> FALSE]

InitBolt ==
  /\ log = <<>>
  /\ call = NoCall
  /\ calls = 0
  /\ byteArraysSupported = TRUE
  /\ ch = <<>>
  /\ errs = <<>>
  /\ op = NoOp
  /\ disableLosslessIntegers = FALSE
  /\ res = NoRes

Invoke(operation, args, r) ==
  /\ log' = r.log
  /\ call' = [op |-> operation, args |-> args, from |-> Len(log), thrown |-> r.thrown]
  /\ calls' = calls + 1
  /\ UNCHANGED packVars

Initialize ==
  /\ calls < MaxCalls
  /\ \E clientName \in ClientNames, authToken \in AuthTokens, observer \in Observers :
       Invoke("initialize",
              [clientName |-> clientName, authToken |-> authToken, observer |-> observer],
              initialize(log, clientName, authToken, observer))

BeginTransaction ==
  /\ calls < MaxCalls
  /\ \E bookmark \in Bookmarks, txConfig \in TxConfigs, observer \in Observers :
       Invoke("beginTransaction",
              [bookmark |-> bookmark, txConfig |-> txConfig, observer |-> observer],
              beginTransaction(log, bookmark, txConfig, observer, calls + 1))

CommitTransaction ==
  /\ calls < MaxCalls
  /\ \E observer \in Observers :
       Invoke("commitTransaction", [observer |-> observer],
              commitTransaction(log, observer, calls + 1))

RollbackTransaction ==
  /\ calls < MaxCalls
  /\ \E observer \in Observers :
       Invoke("rollbackTransaction", [observer |-> observer],
              rollbackTransaction(log, observer, calls + 1))

Run ==
  /\ calls < MaxCalls
  /\ \E statement \in Statements, parameters \in Parameters, bookmark \in Bookmarks,
        txConfig \in TxConfigs, observer \in Observers :
       Invoke("run",
              [statement |-> statement, parameters |-> parameters, bookmark |-> bookmark,
               txConfig |-> txConfig, observer |-> observer],
              run(log, statement, parameters, bookmark, txConfig, observer, calls + 1))

Reset ==
  /\ calls < MaxCalls
  /\ \E observer \in Observers :
       Invoke("reset", [observer |-> observer], reset(log, observer))

NextBolt ==
  \/ Initialize
  \/ BeginTransaction
  \/ CommitTransaction
  \/ RollbackTransaction
  \/ Run
  \/ Reset

Spec == InitBolt /\ [][NextBolt]_vars

(***************************************************************************)
(* Inputs of the codec                                                     *)
(***************************************************************************)
\* how far around each size-class boundary integers and sizes are taken
Spread == 2

\* longest list, map and structure built from the atoms
MaxLen == 2

\* x + d for an Integer x and a small d, in 64-bit two's complement
Plus(x, d) ==
  IF d >= 0
    THEN IF x.low >= 0 /\ x.low > 2147483647 - d
           THEN Integer(MinInt32 + (d - (2147483647 - x.low) - 1), x.high)
         ELSE IF x.low < 0 /\ x.low + d >= 0
           THEN Integer(x.low + d, x.high + 1)
         ELSE Integer(x.low + d, x.high)
    ELSE IF x.low < 0 /\ x.low < MinInt32 - d
           THEN Integer(2147483647 - ((MinInt32 - d) - x.low - 1), x.high)
         ELSE IF x.low >= 0 /\ x.low + d < 0
           THEN Integer(x.low + d, x.high - 1)
         ELSE Integer(x.low + d, x.high)

\* the boundaries of the integer forms, and 2^32, -2^32, 2^53
IntegerBoundaries ==
  { int(0), int(-16), int(128), int(-128), int(-32768), int(32768),
    int(MinInt32), int_0x80000000, Integer(0, 1), Integer(0, -1), Integer(0, 2097152) }

\* -2^63 and 2^63 - 1
MinInteger == Integer(0, MinInt32)

MaxInteger == Integer(-1, 2147483647)

Integers64 ==
  { Plus(b, d) : b \in IntegerBoundaries, d \in (0 - Spread)..Spread }
    \cup { Plus(MinInteger, d) : d \in 0..Spread }
    \cup { Plus(MaxInteger, 0 - d) : d \in 0..Spread }

RepeatSeq(v, n) == [i \in 1..n |-> v]

\* sizes of the containers built whole: around the tiny and the 8-bit boundary
BuiltSizes == {15, 16, 255, 256}

\* sizes given to the header operations: around every size-class boundary
HeaderSizes ==
  { b + d : b \in {16, 256, 65536, 16777216}, d \in (0 - Spread)..Spread }
    \cup {0, 1, 2147483647 - Spread, 2147483647}

\* field counts given to packStructHeader
StructSizes == { n \in HeaderSizes : n <= 65536 + Spread }

\* "a", e-acute (2 bytes), the euro sign (3 bytes), U+1F600 (4 bytes)
Strings ==
  { String(<< >>), String(<< 97 >>), String(<< 233 >>), String(<< 8364 >>),
    String(<< 128512 >>), String(<< 97, 8364, 98 >>), String(RepeatSeq(233, 8)),
    String(RepeatSeq(8364, 85)), String(RepeatSeq(8364, 86)) }
    \cup { String(RepeatSeq(97, n)) : n \in BuiltSizes }

Int8Arrays ==
  { Int8Array(<< >>), Int8Array(<< 1, -1 >>), Int8Array(<< -128, 127, 0 >>) }
    \cup { Int8Array(RepeatSeq(-2, n)) : n \in BuiltSizes }

Numbers == { Number(<< 63, 248, 0, 0, 0, 0, 0, 0 >>), Number(<< 192, 0, 0, 0, 0, 0, 0, 1 >>) }

Signatures == {1, 112, 127}

Atoms == { Null, Bool(TRUE), Bool(FALSE), int(1), int(-17), String(<< 97 >>) }

SeqsUpTo(S, n) == UNION { [1..k -> S] : k \in 0..n }

Keys ==
  << String(<< 107 >>), String(<< 49 >>), String(<< 97 >>), String(<< 48 >>),
     String(<< 98 >>), String(<< 50 >>) >>

\* objects over the keys "k", "1", "a", "0", "b", "2" in that insertion order
Objects ==
  { Object([i \in 1..Len(vs) |-> Prop(Keys[i], vs[i])]) :
      vs \in SeqsUpTo({ Null, int(1), Undefined },
                      IF MaxLen + 2 < Len(Keys) THEN MaxLen + 2 ELSE Len(Keys)) }
    \cup { Object([i \in 1..n |-> Prop(String(<< 107, 97 + (i \div 26), 97 + (i % 26) >>), Null)]) :
             n \in BuiltSizes }

Arrays ==
  { Array(items) : items \in SeqsUpTo(Atoms \cup { Undefined }, MaxLen) }
    \cup { Array(RepeatSeq(Null, n)) : n \in BuiltSizes }

Structures ==
  { Structure(sig, fields) : sig \in Signatures, fields \in SeqsUpTo(Atoms, MaxLen) }
    \cup { Structure(112, RepeatSeq(Null, n)) : n \in BuiltSizes }

\* values the Packer refuses
Refused ==
  { Node(int(1), Array(<< >>), Object(<< >>)),
    Relationship(int(1), int(2), int(3), String(<< 97 >>), Object(<< >>)),
    Path(Undefined, Undefined, << >>),
    [t |-> "iterable", items |-> << Null >>, fails |-> TRUE],
    [t |-> "function"],
    Undefined }

Flat ==
  { Null, Bool(TRUE), Bool(FALSE) } \cup Integers64 \cup Numbers \cup Strings
    \cup Int8Arrays \cup Arrays \cup Objects \cup Structures \cup Refused
    \cup { [t |-> "iterable", items |-> << Null, int(1) >>, fails |-> FALSE],
           UnboundRelationship(int(1), String(<< 97 >>), Object(<< >>)) }

\* one more level: a value inside a list, a map and a structure
Inner ==
  { Array(<< int(128), String(<< 233 >>) >>), Object(<< Prop(String(<< 107 >>), int(-129)) >>),
    Structure(1, << Integer(0, 1) >>), Int8Array(<< 1, -1 >>),
    Structure(112, RepeatSeq(Null, 256)), Array(RepeatSeq(Null, 16)) }
    \cup Refused

\* a value two and three levels down, inside a structure inside a map inside
\* a list
Deep ==
  { Array(<< Object(<< Prop(String(<< 107 >>), Structure(1, << v, Array(<< v >>) >>)) >>),
             int(1) >>) :
      v \in Refused \cup { Structure(127, << >>), Bool(TRUE) } }

Nested ==
  Deep
    \cup { Array(<< Null, v >>) : v \in Inner }
    \cup { Object(<< Prop(String(<< 107 >>), v), Prop(String(<< 97 >>), Bool(TRUE)) >>) : v \in Inner }
    \cup { Structure(127, << v, int(1) >>) : v \in Inner }

Values == Flat \cup Nested

(***************************************************************************)
(* The codec as a state machine                                            *)
(***************************************************************************)
\* buffers handed to unpack: every marker byte, alone and followed by zeros
\* (sizes of 0, tiny integers 0, a struct signature 0)
MarkerBuffers ==
  { << marker >> \o tail : marker \in 0..255, tail \in { << >>, RepeatSeq(0, 40) } }

\* the struct headers that can announce n fields
StructHeaders(n) ==
  (IF n < 16 THEN { << TINY_STRUCT + n >> } ELSE {})
    \cup (IF n < 256 THEN { << STRUCT_8, n >> } ELSE {})
    \cup { << STRUCT_16, n \div 256, n % 256 >> }

\* field counts around those of the graph structures, and around the bounds
\* of the struct size classes
StructFieldCounts == {0, 1} \cup ((3 - Spread)..(5 + Spread)) \cup BuiltSizes

\* a struct announcing n fields and holding them all or none of them: field i
\* is the tiny integer i, or an empty list in a Path
StructBuffer(header, signature, n, present) ==
  header \o << signature >>
    \o (IF present
          THEN [i \in 1..n |-> IF signature = PATH THEN TINY_LIST ELSE i % 128]
          ELSE << >>)

StructBuffers ==
  UNION { { StructBuffer(header, signature, n, present) :
              header \in StructHeaders(n),
              signature \in {NODE, RELATIONSHIP, UNBOUND_RELATIONSHIP, PATH} \cup Signatures,
              present \in BOOLEAN } :
          n \in StructFieldCounts }

\* 32-bit words: 0, 1, 2^31 - 1, -2^31, -1, and the high words around the
\* safe range of native numbers
Words ==
  { << 0, 0, 0, 0 >>, << 0, 0, 0, 1 >>, << 127, 255, 255, 255 >>, << 128, 0, 0, 0 >>,
    << 255, 255, 255, 255 >>, << 0, 32, 0, 0 >>, << 0, 31, 255, 255 >>, << 255, 224, 0, 0 >> }

\* the images of 1.5, of -0 and of a NaN
FloatImages ==
  { << 63, 248, 0, 0, 0, 0, 0, 0 >>, << 128, 0, 0, 0, 0, 0, 0, 0 >>,
    << 127, 248, 0, 0, 0, 0, 0, 1 >> }

\* an integer of every width and a float, alone and as the element of a list
NumberPayloads ==
  { << INT_8, b >> : b \in 0..255 }
    \cup { << INT_16, b1, b2 >> : b1 \in {0, 1, 127, 128, 255}, b2 \in {0, 1, 127, 128, 255} }
    \cup { << INT_32 >> \o w : w \in Words }
    \cup { << INT_64 >> \o high \o low : high \in Words, low \in Words }
    \cup { << FLOAT_64 >> \o image : image \in FloatImages }

NumberBuffers == NumberPayloads \cup { << TINY_LIST + 1 >> \o b : b \in NumberPayloads }

Buffers == MarkerBuffers \cup StructBuffers \cup NumberBuffers

\* a path on the wire: three nodes of identities 10, 11, 12 without labels
\* and properties, two unbound relationships of identities 20, 21 and type
\* "t", and a sequence of (relIndex, nodeIndex) pairs
PathNodeIds == << 10, 11, 12 >>

PathRelIds == << 20, 21 >>

PathSequences ==
  SeqsUpTo({ << relIndex, nodeIndex >> : relIndex \in {-2, -1, 1, 2}, nodeIndex \in 0..2 },
           MaxLen)

RECURSIVE Flatten(_)
Flatten(parts) ==
  IF parts = << >> THEN << >> ELSE Head(parts) \o Flatten(Tail(parts))

PathBuffer(sequence) ==
  << TINY_STRUCT + 3, PATH >>
    \o << TINY_LIST + Len(PathNodeIds) >>
    \o Flatten([k \in 1..Len(PathNodeIds) |->
                  << TINY_STRUCT + 3, NODE, PathNodeIds[k], TINY_LIST, TINY_MAP >>])
    \o << TINY_LIST + Len(PathRelIds) >>
    \o Flatten([k \in 1..Len(PathRelIds) |->
                  << TINY_STRUCT + 3, UNBOUND_RELATIONSHIP, PathRelIds[k],
                     TINY_STRING + 1, 116, TINY_MAP >>])
    \o << TINY_LIST + 2 * Len(sequence) >>
    \o Flatten([k \in 1..Len(sequence) |-> << sequence[k][1] % 256, sequence[k][2] >>])

InitPack ==
  /\ log = << >>
  /\ call = NoCall
  /\ calls = 0
  /\ byteArraysSupported = TRUE
  /\ ch = << >>
  /\ errs = << >>
  /\ op = NoOp
  /\ disableLosslessIntegers \in BOOLEAN
  /\ res = NoRes

\* The Packer keeps nothing from one operation to the next but its flag, and
\* ch and errs hold what the latest operation did: an operation is taken from
\* the state the construction or disableByteArrays left.
Fresh == op.name \in {"none", "disableByteArrays"}

\* packer.packable(x, onError)()
Pack ==
  /\ Fresh
  /\ \E x \in Values :
       LET p == packable(x, TRUE, byteArraysSupported)
           e == Then(p.made, CallPackable(p))
       IN /\ ch' = e.ch
          /\ errs' = e.errs
          /\ op' = [name |-> "pack", x |-> x, thrown |-> e.thrown,
                    returned |-> p.made.thrown = << >>,
                    callable |-> p.made.thrown = << >> /\ p.callable]
          /\ res' = NoRes
          /\ UNCHANGED <<byteArraysSupported, disableLosslessIntegers>>
          /\ UNCHANGED boltVars

\* packer.packString(x, onError) on a string of `size` UTF-8 bytes: the bytes
\* written before the string's own bytes
PackStringOfSize ==
  /\ Fresh
  /\ \E size \in HeaderSizes :
       LET e == packStringHeader(size, TRUE)
       IN /\ ch' = e.ch
          /\ errs' = e.errs
          /\ op' = [name |-> "packString", size |-> size]
          /\ res' = NoRes
          /\ UNCHANGED <<byteArraysSupported, disableLosslessIntegers>>
          /\ UNCHANGED boltVars

PackListHeader ==
  /\ Fresh
  /\ \E size \in HeaderSizes :
       LET e == packListHeader(size, TRUE)
       IN /\ ch' = e.ch
          /\ errs' = e.errs
          /\ op' = [name |-> "packListHeader", size |-> size]
          /\ res' = NoRes
          /\ UNCHANGED <<byteArraysSupported, disableLosslessIntegers>>
          /\ UNCHANGED boltVars

PackBytesHeader ==
  /\ Fresh
  /\ \E size \in HeaderSizes :
       LET e == packBytesHeader(size, TRUE)
       IN /\ ch' = e.ch
          /\ errs' = e.errs
          /\ op' = [name |-> "packBytesHeader", size |-> size]
          /\ res' = NoRes
          /\ UNCHANGED <<byteArraysSupported, disableLosslessIntegers>>
          /\ UNCHANGED boltVars

PackMapHeader ==
  /\ Fresh
  /\ \E size \in HeaderSizes :
       LET e == packMapHeader(size, TRUE)
       IN /\ ch' = e.ch
          /\ errs' = e.errs
          /\ op' = [name |-> "packMapHeader", size |-> size]
          /\ res' = NoRes
          /\ UNCHANGED <<byteArraysSupported, disableLosslessIntegers>>
          /\ UNCHANGED boltVars

PackStructHeader ==
  /\ Fresh
  /\ \E size \in StructSizes, signature \in Signatures :
       LET e == packStructHeader(size, signature, TRUE)
       IN /\ ch' = e.ch
          /\ errs' = e.errs
          /\ op' = [name |-> "packStructHeader", size |-> size, signature |-> signature,
                    thrown |-> e.thrown]
          /\ res' = NoRes
          /\ UNCHANGED <<byteArraysSupported, disableLosslessIntegers>>
          /\ UNCHANGED boltVars

\* packer.packStruct(signature, packableFields) on `size` continuations: what
\* it does before it calls them (it hands no onError to packStructHeader)
PackStruct ==
  /\ Fresh
  /\ \E size \in StructSizes, signature \in Signatures :
       LET e == packStructHeader(size, signature, FALSE)
       IN /\ ch' = e.ch
          /\ errs' = e.errs
          /\ op' = [name |-> "packStruct", size |-> size, signature |-> signature,
                    thrown |-> e.thrown]
          /\ res' = NoRes
          /\ UNCHANGED <<byteArraysSupported, disableLosslessIntegers>>
          /\ UNCHANGED boltVars

DisableByteArrays ==
  /\ byteArraysSupported' = FALSE
  /\ ch' = << >>
  /\ errs' = << >>
  /\ op' = [name |-> "disableByteArrays"]
  /\ res' = NoRes
  /\ UNCHANGED disableLosslessIntegers
  /\ UNCHANGED boltVars

\* the bytes of the value just packed come back and are unpacked
Unpack ==
  /\ op.name = "pack"
  /\ ~res.done
  /\ res' = [done |-> TRUE, r |-> unpack(ch, 1, disableLosslessIntegers)]
  /\ UNCHANGED <<byteArraysSupported, ch, errs, op, disableLosslessIntegers>>
  /\ UNCHANGED boltVars

\* unpacker.unpack(buffer) on bytes that arrive from the server
UnpackBytes ==
  /\ Fresh
  /\ \E buf \in Buffers :
       /\ ch' = buf
       /\ errs' = << >>
       /\ op' = [name |-> "unpack"]
       /\ res' = [done |-> TRUE, r |-> unpack(buf, 1, disableLosslessIntegers)]
       /\ UNCHANGED <<byteArraysSupported, disableLosslessIntegers>>
       /\ UNCHANGED boltVars

\* the local array rels of _unpackPath when its loop has ended, for the
\* three fields r that it has unpacked
HydratedRels(r) ==
  hydrateFrom(r.val[1], r.val[2], r.val[3], 0, << >>, ArrayAt(r.val[1], 0)).rels.items

\* unpacker.unpack(buffer) on a path that arrives from the server
UnpackPath ==
  /\ Fresh
  /\ \E sequence \in PathSequences :
       /\ ch' = PathBuffer(sequence)
       /\ errs' = << >>
       /\ op' = [name |-> "unpackPath", sequence |-> sequence,
                 rels |-> HydratedRels(unpackMany(PathBuffer(sequence), 3, 3,
                                                   disableLosslessIntegers))]
       /\ res' = [done |-> TRUE, r |-> unpack(PathBuffer(sequence), 1, disableLosslessIntegers)]
       /\ UNCHANGED <<byteArraysSupported, disableLosslessIntegers>>
       /\ UNCHANGED boltVars

NextPack ==
  \/ Pack
  \/ PackStringOfSize
  \/ PackListHeader
  \/ PackBytesHeader
  \/ PackMapHeader
  \/ PackStructHeader
  \/ PackStruct
  \/ DisableByteArrays
  \/ Unpack
  \/ UnpackBytes
  \/ UnpackPath

SpecPack == InitPack /\ [][NextPack]_vars

(***************************************************************************)
(* Temporal utilities.  The day arithmetic is done on Integers whose       *)
(* values stay below 2^31 in absolute value for the years -9999..9999 (the *)
(* largest is zeroDay * 400 < 1.5 * 10^9), so they are written as integers.*)
(***************************************************************************)
DAYS_0000_TO_1970 == 719528

DAYS_PER_400_YEAR_CYCLE == 146097

SECONDS_PER_DAY == 86400

\* Integer.div: the quotient rounded towards zero
Integer_div(a, b) ==
  LET abs(x) == IF x < 0 THEN 0 - x ELSE x
      q == abs(a) \div abs(b)
  IN IF (a < 0) = (b < 0) THEN q ELSE 0 - q

\* Integer.modulo: the remainder, with the sign of the dividend
Integer_modulo(a, b) == a - Integer_div(a, b) * b

\* Integer.isPositive: zero counts as positive
Integer_isPositive(a) == a >= 0

\* faulty variant: the truncated quotient
floorDiv_truncated(x, y) == Integer_div(x, y)

floorDiv(x, y) ==
  LET result == Integer_div(x, y)
  IN IF Integer_isPositive(x) # Integer_isPositive(y) /\ result * y # x
       THEN result - 1
       ELSE result

floorMod(x, y) == x - floorDiv(x, y) * y

Date(year, month, day) == [year |-> year, month |-> month, day |-> day]

\* faulty variant: the century rule is left out
isLeapYear_julian(year) == Integer_modulo(year, 4) = 0

isLeapYear(year) ==
  IF Integer_modulo(year, 4) # 0 THEN FALSE
  ELSE IF Integer_modulo(year, 100) # 0 THEN TRUE
  ELSE IF Integer_modulo(year, 400) # 0 THEN FALSE
  ELSE TRUE

dateToEpochDay(date) ==
  LET year == date.year
      month == date.month
      day == date.day
      epochDay1 == year * 365
      epochDay2 ==
        IF year >= 0
          THEN epochDay1 + ((Integer_div(year + 3, 4) - Integer_div(year + 99, 100))
                              + Integer_div(year + 399, 400))
          ELSE epochDay1 - ((Integer_div(year, -4) - Integer_div(year, -100))
                              + Integer_div(year, -400))
      epochDay3 == epochDay2 + Integer_div(month * 367 - 362, 12)
      epochDay4 == epochDay3 + (day - 1)
      epochDay5 ==
        IF month > 2
          THEN IF ~isLeapYear(year) THEN (epochDay4 - 1) - 1 ELSE epochDay4 - 1
          ELSE epochDay4
  IN epochDay5 - DAYS_0000_TO_1970

epochDayToDate(epochDay) ==
  LET zeroDay1 == (epochDay + DAYS_0000_TO_1970) - 60
      adjustCycles == Integer_div(zeroDay1 + 1, DAYS_PER_400_YEAR_CYCLE) - 1
      adjust == IF zeroDay1 < 0 THEN adjustCycles * 400 ELSE 0
      zeroDay == IF zeroDay1 < 0
                   THEN zeroDay1 + adjustCycles * (0 - DAYS_PER_400_YEAR_CYCLE)
                   ELSE zeroDay1
      daysBefore(y) ==
        ((y * 365 + Integer_div(y, 4)) - Integer_div(y, 100)) + Integer_div(y, 400)
      year1 == Integer_div(zeroDay * 400 + 591, DAYS_PER_400_YEAR_CYCLE)
      dayOfYearEst1 == zeroDay - daysBefore(year1)
      year2 == IF dayOfYearEst1 < 0 THEN year1 - 1 ELSE year1
      dayOfYearEst == IF dayOfYearEst1 < 0 THEN zeroDay - daysBefore(year2) ELSE dayOfYearEst1
      year3 == year2 + adjust
      marchDayOfYear == dayOfYearEst
      marchMonth == Integer_div(marchDayOfYear * 5 + 2, 153)
      month == Integer_modulo(marchMonth + 2, 12) + 1
      day == (marchDayOfYear - Integer_div(marchMonth * 306 + 5, 10)) + 1
      year == year3 + Integer_div(marchMonth, 10)
  IN Date(year, month, day)

(***************************************************************************)
(* Nanoseconds of the day reach 86399999999999, beyond the integers of the *)
(* model checker, so the Integers of the local time conversions are        *)
(* written in base NANOS_PER_SECOND: Wide(hi, lo) is the non-negative      *)
(* Integer hi * NANOS_PER_SECOND + lo, with 0 <= lo < NANOS_PER_SECOND.    *)
(* Every value of these conversions is below 2^63, so no Integer wraps.    *)
(***************************************************************************)
MINUTES_PER_HOUR == 60
SECONDS_PER_MINUTE == 60
SECONDS_PER_HOUR == SECONDS_PER_MINUTE * MINUTES_PER_HOUR
NANOS_PER_SECOND == 1000000000

Wide(hi, lo) == [hi |-> hi, lo |-> lo]

\* int(n) of a non-negative number n
toInteger(n) == Wide(n \div NANOS_PER_SECOND, n % NANOS_PER_SECOND)

NANOS_PER_MINUTE == Wide(SECONDS_PER_MINUTE, 0)
NANOS_PER_HOUR == Wide(SECONDS_PER_HOUR, 0)

Wide_add(a, b) ==
  LET lo == a.lo + b.lo
  IN Wide(a.hi + b.hi + lo \div NANOS_PER_SECOND, lo % NANOS_PER_SECOND)

\* a - b, for a >= b
Wide_subtract(a, b) ==
  IF a.lo >= b.lo
    THEN Wide(a.hi - b.hi, a.lo - b.lo)
    ELSE Wide(a.hi - b.hi - 1, a.lo + NANOS_PER_SECOND - b.lo)

\* a * b, for a below NANOS_PER_SECOND and b a multiple of NANOS_PER_SECOND,
\* or b = 1: the only products the conversions take
Wide_multiply(a, b) == Wide(a.hi * b.lo + a.lo * b.hi, a.lo * b.lo)

\* a / b truncated, for b a multiple of NANOS_PER_SECOND
Wide_div(a, b) == Wide(0, a.hi \div b.hi)

LocalTime(hour, minute, second, nanosecond) ==
  [hour |-> hour, minute |-> minute, second |-> second, nanosecond |-> nanosecond]

localTimeToNanoOfDay(localTime) ==
  LET hour == toInteger(localTime.hour)
      minute == toInteger(localTime.minute)
      second == toInteger(localTime.second)
      nanosecond == toInteger(localTime.nanosecond)
      totalNanos1 == Wide_multiply(hour, NANOS_PER_HOUR)
      totalNanos2 == Wide_add(totalNanos1, Wide_multiply(minute, NANOS_PER_MINUTE))
      totalNanos3 == Wide_add(totalNanos2, Wide_multiply(second, toInteger(NANOS_PER_SECOND)))
  IN Wide_add(totalNanos3, nanosecond)

\* faulty variant: the minutes are taken from the nanoseconds of the whole day
nanoOfDayToLocalTime_wholeDay(nanoOfDay) ==
  LET hour == Wide_div(nanoOfDay, NANOS_PER_HOUR)
      minute == Wide_div(nanoOfDay, NANOS_PER_MINUTE)
      nanoOfDay2 == Wide_subtract(nanoOfDay, Wide_multiply(minute, NANOS_PER_MINUTE))
      second == Wide_div(nanoOfDay2, toInteger(NANOS_PER_SECOND))
      nanosecond == Wide_subtract(nanoOfDay2, Wide_multiply(second, toInteger(NANOS_PER_SECOND)))
  IN LocalTime(hour, minute, second, nanosecond)

nanoOfDayToLocalTime(nanoOfDay) ==
  LET hour == Wide_div(nanoOfDay, NANOS_PER_HOUR)
      nanoOfDay1 == Wide_subtract(nanoOfDay, Wide_multiply(hour, NANOS_PER_HOUR))
      minute == Wide_div(nanoOfDay1, NANOS_PER_MINUTE)
      nanoOfDay2 == Wide_subtract(nanoOfDay1, Wide_multiply(minute, NANOS_PER_MINUTE))
      second == Wide_div(nanoOfDay2, toInteger(NANOS_PER_SECOND))
      nanosecond == Wide_subtract(nanoOfDay2, Wide_multiply(second, toInteger(NANOS_PER_SECOND)))
  IN LocalTime(hour, minute, second, nanosecond)

(***************************************************************************)
(* Local date-times.  Epoch seconds are written as integers: they stay     *)
(* below 2^31 in absolute value for the years 1902..2037.                  *)
(***************************************************************************)
LocalDateTime(localDate, localTime) == [localDate |-> localDate, localTime |-> localTime]

localTimeToSecondOfDay(localTime) ==
  LET hour == localTime.hour
      minute == localTime.minute
      second == localTime.second
      totalSeconds1 == hour * SECONDS_PER_HOUR
      totalSeconds2 == totalSeconds1 + minute * SECONDS_PER_MINUTE
  IN totalSeconds2 + second

localDateTimeToEpochSecond(localDateTime) ==
  LET localDate == localDateTime.localDate
      localTime == localDateTime.localTime
      epochDay == dateToEpochDay(localDate)
      localTimeSeconds == localTimeToSecondOfDay(localTime)
  IN epochDay * SECONDS_PER_DAY + localTimeSeconds

\* faulty variant: the day and the second of the day are taken by truncation
epochSecondAndNanoToLocalDateTime_truncated(epochSecond, nano) ==
  LET epochDay == Integer_div(epochSecond, SECONDS_PER_DAY)
      secondsOfDay == Integer_modulo(epochSecond, SECONDS_PER_DAY)
      nanoOfDay == Wide_add(Wide_multiply(toInteger(secondsOfDay), toInteger(NANOS_PER_SECOND)),
                            toInteger(nano))
      localDate == epochDayToDate(epochDay)
      localTime == nanoOfDayToLocalTime(nanoOfDay)
  IN LocalDateTime(localDate, localTime)

epochSecondAndNanoToLocalDateTime(epochSecond, nano) ==
  LET epochDay == floorDiv(epochSecond, SECONDS_PER_DAY)
      secondsOfDay == floorMod(epochSecond, SECONDS_PER_DAY)
      nanoOfDay == Wide_add(Wide_multiply(toInteger(secondsOfDay), toInteger(NANOS_PER_SECOND)),
                            toInteger(nano))
      localDate == epochDayToDate(epochDay)
      localTime == nanoOfDayToLocalTime(nanoOfDay)
  IN LocalDateTime(localDate, localTime)

(***************************************************************************)
(* Inputs of the temporal utilities                                        *)
(***************************************************************************)
\* the years run from -MaxYear to MaxYear
MaxYear == 9999

\* the days of a month of the proleptic Gregorian calendar
DaysInMonth(year, month) ==
  IF month = 2
    THEN IF (year % 4 = 0 /\ year % 100 # 0) \/ year % 400 = 0 THEN 29 ELSE 28
  ELSE IF month \in {4, 6, 9, 11} THEN 30
  ELSE 31

\* years whose every day is taken: next to the ends, to year 0, to the
\* epoch and to the centuries
WholeYears ==
  { b + d : b \in {-400, -100, 0, 1600, 1900, 1970, 2000, 2100},
            d \in (0 - Spread)..Spread }
    \cup { MaxYear - d : d \in 0..Spread }
    \cup { d - MaxYear : d \in 0..Spread }

\* of every other year: the first and the last day, and the days around the
\* end of February
DaysTaken(year) ==
  { md \in (IF year \in WholeYears
              THEN (1..12) \X (1..31)
              ELSE { << 1, 1 >>, << 2, 28 >>, << 2, 29 >>, << 3, 1 >>, << 12, 31 >> }) :
      md[2] <= DaysInMonth(year, md[1]) }

(***************************************************************************)
(* The temporal utilities as a state machine: a function is applied to an  *)
(* input, and its inverse to what it returned                              *)
(***************************************************************************)
DateToEpochDay ==
  /\ op.name = "none"
  /\ \E year \in (0 - MaxYear)..MaxYear :
       \E md \in DaysTaken(year) :
         /\ op' = [name |-> "dateToEpochDay", date |-> Date(year, md[1], md[2]),
                   epochDay |-> dateToEpochDay(Date(year, md[1], md[2]))]
         /\ res' = NoRes
         /\ UNCHANGED <<byteArraysSupported, ch, errs, disableLosslessIntegers>>
         /\ UNCHANGED boltVars

EpochDayToDate ==
  /\ op.name = "dateToEpochDay"
  /\ ~res.done
  /\ res' = [done |-> TRUE, r |-> epochDayToDate(op.epochDay)]
  /\ UNCHANGED <<byteArraysSupported, ch, errs, op, disableLosslessIntegers>>
  /\ UNCHANGED boltVars

\* every hour, minute and second of the day, at the first and the last
\* nanosecond of the second
LocalTimeToNanoOfDay ==
  /\ op.name = "none"
  /\ \E hour \in 0..23, minute \in 0..59, second \in 0..59,
        nanosecond \in {0, NANOS_PER_SECOND - 1} :
       LET localTime == LocalTime(hour, minute, second, nanosecond)
       IN /\ op' = [name |-> "localTimeToNanoOfDay", localTime |-> localTime,
                    nanoOfDay |-> localTimeToNanoOfDay(localTime)]
          /\ res' = NoRes
          /\ UNCHANGED <<byteArraysSupported, ch, errs, disableLosslessIntegers>>
          /\ UNCHANGED boltVars

NanoOfDayToLocalTime ==
  /\ op.name = "localTimeToNanoOfDay"
  /\ ~res.done
  /\ res' = [done |-> TRUE, r |-> nanoOfDayToLocalTime(op.nanoOfDay)]
  /\ UNCHANGED <<byteArraysSupported, ch, errs, op, disableLosslessIntegers>>
  /\ UNCHANGED boltVars

\* largest dividend and divisor taken one by one
MaxDividend == 40

MaxDivisor == 12

\* around zero, around a day of seconds and around 10^9
Dividends ==
  ((0 - MaxDividend)..MaxDividend)
    \cup { s * (SECONDS_PER_DAY + d) : s \in {-1, 1}, d \in (0 - Spread)..Spread }
    \cup { s * (NANOS_PER_SECOND + d) : s \in {-1, 1}, d \in 0..Spread }

Divisors ==
  { s * d : s \in {-1, 1}, d \in (1..MaxDivisor) \cup {60, 400, SECONDS_PER_DAY, NANOS_PER_SECOND} }

FloorDivMod ==
  /\ op.name = "none"
  /\ \E x \in Dividends, y \in Divisors :
       /\ op' = [name |-> "floorDiv", x |-> x, y |-> y,
                 div |-> floorDiv(x, y), mod |-> floorMod(x, y)]
       /\ res' = NoRes
       /\ UNCHANGED <<byteArraysSupported, ch, errs, disableLosslessIntegers>>
       /\ UNCHANGED boltVars

\* the years whose epoch seconds are below 2^31 in absolute value
EpochYears == 1902..2037

\* midnight, the first second, a time of the afternoon and the last second
TimesOfDay == { << 0, 0, 0 >>, << 0, 0, 1 >>, << 12, 34, 56 >>, << 23, 59, 59 >> }

\* epoch seconds around whole days before and after the epoch, up to 24854
\* days away from it
EpochSeconds ==
  { s * (k * SECONDS_PER_DAY + d) :
      s \in {-1, 1}, k \in {0, 1, 2, 365, 24854}, d \in ((0 - Spread)..Spread) \cup {43200} }

LocalDateTimeToEpochSecond ==
  /\ op.name = "none"
  /\ \E year \in EpochYears, time \in TimesOfDay, nano \in {0, NANOS_PER_SECOND - 1} :
       \E md \in { d \in DaysTaken(year) : d[2] \in {1, 28, 29, 31} } :
         LET localDateTime == LocalDateTime(Date(year, md[1], md[2]),
                                            LocalTime(time[1], time[2], time[3], nano))
         IN /\ op' = [name |-> "localDateTimeToEpochSecond", localDateTime |-> localDateTime,
                      nano |-> nano,
                      epochSecond |-> localDateTimeToEpochSecond(localDateTime)]
            /\ res' = NoRes
            /\ UNCHANGED <<byteArraysSupported, ch, errs, disableLosslessIntegers>>
            /\ UNCHANGED boltVars

\* the epoch second just computed is converted back
EpochSecondAndNanoToLocalDateTime ==
  /\ op.name = "localDateTimeToEpochSecond"
  /\ ~res.done
  /\ res' = [done |-> TRUE, r |-> epochSecondAndNanoToLocalDateTime(op.epochSecond, op.nano)]
  /\ UNCHANGED <<byteArraysSupported, ch, errs, op, disableLosslessIntegers>>
  /\ UNCHANGED boltVars

\* an epoch second that arrives from the server is converted
EpochSecondToLocalDateTime ==
  /\ op.name = "none"
  /\ \E epochSecond \in EpochSeconds, nano \in {0, 1, NANOS_PER_SECOND - 1} :
       /\ op' = [name |-> "epochSecondAndNanoToLocalDateTime",
                 epochSecond |-> epochSecond, nano |-> nano]
       /\ res' = [done |-> TRUE, r |-> epochSecondAndNanoToLocalDateTime(epochSecond, nano)]
       /\ UNCHANGED <<byteArraysSupported, ch, errs, disableLosslessIntegers>>
       /\ UNCHANGED boltVars

InitTime == InitBolt

NextTime ==
  \/ DateToEpochDay
  \/ EpochDayToDate
  \/ LocalTimeToNanoOfDay
  \/ NanoOfDayToLocalTime
  \/ FloorDivMod
  \/ LocalDateTimeToEpochSecond
  \/ EpochSecondAndNanoToLocalDateTime
  \/ EpochSecondToLocalDateTime

SpecTime == InitTime /\ [][NextTime]_vars

(***************************************************************************)
(* Claims about the Packer                                                 *)
(***************************************************************************)
\* the Integer x lies in -2^31..2^31-1, and is then the number x.low
Fits32(x) == x.high = (IF x.low < 0 THEN -1 ELSE 0)

\* C6: packInteger writes the narrowest form whose signed range holds the
\* integer: 1 byte (the value in the marker) for -16..127, INT_8 and 2 bytes
\* for -128..-17, INT_16 and 3 bytes for the rest of -32768..32767, INT_32 and
\* 5 bytes for the rest of -2^31..2^31-1, INT_64 and 9 bytes otherwise.
C6_NarrowestIntegerForm ==
  (op.name = "pack" /\ op.x.t = "Integer") =>
    LET x == op.x
        v == x.low
    IN /\ errs = << >>
       /\ op.thrown = << >>
       /\ IF Fits32(x) /\ v >= -16 /\ v <= 127
            THEN Len(ch) = 1 /\ ch[1] = v % 256
          ELSE IF Fits32(x) /\ v >= -128 /\ v <= -17
            THEN Len(ch) = 2 /\ ch[1] = INT_8
          ELSE IF Fits32(x) /\ v >= -32768 /\ v <= 32767
            THEN Len(ch) = 3 /\ ch[1] = INT_16
          ELSE IF Fits32(x)
            THEN Len(ch) = 5 /\ ch[1] = INT_32
          ELSE Len(ch) = 9 /\ ch[1] = INT_64

\* 2^31, the least positive integer that needs INT_64
C6_Witness ==
  /\ op.name = "pack"
  /\ op.x = Integer(MinInt32, 0)
  /\ Len(ch) = 9

\* the values of the round trip: null, booleans, Integers, strings, lists,
\* string-keyed maps and structures whose signature is none of the graph types
RECURSIVE InRoundTripDomain(_)
InRoundTripDomain(v) ==
  \/ v.t \in {"null", "boolean", "Integer", "string"}
  \/ v.t = "Array" /\ \A i \in 1..Len(v.items) : InRoundTripDomain(v.items[i])
  \/ v.t = "Object" /\ \A i \in 1..Len(v.props) : InRoundTripDomain(v.props[i].value)
  \/ /\ v.t = "Structure"
     /\ v.signature \notin {NODE, RELATIONSHIP, UNBOUND_RELATIONSHIP, PATH}
     /\ \A i \in 1..Len(v.fields) : InRoundTripDomain(v.fields[i])

\* structural equality: maps are equal when they hold the same keys with
\* equal values
RECURSIVE StructurallyEqual(_, _)
StructurallyEqual(v, w) ==
  /\ v.t = w.t
  /\ \/ v.t = "null"
     \/ v.t = "boolean" /\ v.b = w.b
     \/ v.t = "Integer" /\ v.high = w.high /\ v.low = w.low
     \/ v.t = "string" /\ DOMAIN v = DOMAIN w /\ v.cp = w.cp
     \/ /\ v.t = "Array"
        /\ Len(v.items) = Len(w.items)
        /\ \A i \in 1..Len(v.items) : StructurallyEqual(v.items[i], w.items[i])
     \/ /\ v.t = "Object"
        /\ Len(v.props) = Len(w.props)
        /\ \A i \in 1..Len(v.props) :
             \E j \in 1..Len(w.props) :
               /\ w.props[j].key = v.props[i].key
               /\ StructurallyEqual(v.props[i].value, w.props[j].value)
     \/ /\ v.t = "Structure"
        /\ v.signature = w.signature
        /\ Len(v.fields) = Len(w.fields)
        /\ \A i \in 1..Len(v.fields) : StructurallyEqual(v.fields[i], w.fields[i])

RoundTripDone ==
  /\ op.name = "pack"
  /\ res.done
  /\ ~disableLosslessIntegers
  /\ InRoundTripDomain(op.x)

\* C7: unpacking the bytes written by pack(v), with disableLosslessIntegers =
\* false, gives a value structurally equal to v, for every v built from null,
\* booleans, Integers, strings, lists, string-keyed maps and generic
\* structures.
C7_RoundTrip ==
  RoundTripDone =>
    /\ res.r.err = << >>
    /\ res.r.pos = Len(ch) + 1
    /\ StructurallyEqual(op.x, res.r.val)

\* the expected header of a structure of n < 65536 fields: marker, size, signature
StructHeader(n, signature) ==
  IF n < 16 THEN << TINY_STRUCT + n, signature >>
  ELSE IF n < 256 THEN << STRUCT_8, n, signature >>
  ELSE << STRUCT_16, n \div 256, n % 256, signature >>

\* C8: for 0..65535 fields packStructHeader writes the marker of the size
\* class, the size and then the signature byte, in every size class.
C8_StructHeaderHasSignature ==
  (op.name = "packStructHeader" /\ op.size < 65536) =>
    /\ errs = << >>
    /\ ch = StructHeader(op.size, op.signature)

\* the expected header of size n in a class family
SizeHeader(tiny, m8, m16, m32, n) ==
  IF n < 16 THEN << tiny + n >>
  ELSE IF n < 256 THEN << m8, n >>
  ELSE IF n < 65536 THEN << m16, n \div 256, n % 256 >>
  ELSE << m32, n \div 16777216, (n \div 65536) % 256, (n \div 256) % 256, n % 256 >>

BytesSizeHeader(n) ==
  IF n < 256 THEN << BYTES_8, n >>
  ELSE IF n < 65536 THEN << BYTES_16, n \div 256, n % 256 >>
  ELSE << BYTES_32, n \div 16777216, (n \div 65536) % 256, (n \div 256) % 256, n % 256 >>

\* the size a header announces, read back big-endian
RECURSIVE BigEndian(_)
BigEndian(bytes) ==
  IF bytes = << >> THEN 0
  ELSE BigEndian(SubSeq(bytes, 1, Len(bytes) - 1)) * 256 + bytes[Len(bytes)]

AnnouncedSize(header) ==
  IF Len(header) = 1 THEN header[1] % 16 ELSE BigEndian(SubSeq(header, 2, Len(header)))

\* the number of UTF-8 bytes of a string
Utf8Length(x) ==
  Len(x.cp) + Cardinality({ i \in 1..Len(x.cp) : x.cp[i] >= 128 })
            + Cardinality({ i \in 1..Len(x.cp) : x.cp[i] >= 2048 })
            + Cardinality({ i \in 1..Len(x.cp) : x.cp[i] >= 65536 })

\* ch starts with the header h, which announces n
StartsWithHeader(h, n) ==
  /\ Len(ch) >= Len(h)
  /\ SubSeq(ch, 1, Len(h)) = h
  /\ AnnouncedSize(h) = n

\* C9: strings (by UTF-8 byte length), lists and maps of size n get the tiny
\* marker with n in its low nibble for n < 16, the 8-bit marker and one size
\* byte for n < 256, the 16-bit marker and two big-endian size bytes for
\* n < 65536, the 32-bit marker and four big-endian size bytes above; byte
\* arrays start at BYTES_8; the size bytes read back as n.
C9_SizeClassHeaders ==
  /\ op.name = "packString" =>
       /\ ch = SizeHeader(TINY_STRING, STRING_8, STRING_16, STRING_32, op.size)
       /\ AnnouncedSize(ch) = op.size
  /\ op.name = "packListHeader" =>
       /\ ch = SizeHeader(TINY_LIST, LIST_8, LIST_16, LIST_32, op.size)
       /\ AnnouncedSize(ch) = op.size
  /\ op.name = "packMapHeader" =>
       /\ ch = SizeHeader(TINY_MAP, MAP_8, MAP_16, MAP_32, op.size)
       /\ AnnouncedSize(ch) = op.size
  /\ op.name = "packBytesHeader" =>
       /\ ch = BytesSizeHeader(op.size)
       /\ AnnouncedSize(ch) = op.size
  /\ (op.name = "pack" /\ op.x.t = "string") =>
       /\ StartsWithHeader(SizeHeader(TINY_STRING, STRING_8, STRING_16, STRING_32,
                                      Utf8Length(op.x)), Utf8Length(op.x))
       /\ Len(ch) = Len(SizeHeader(TINY_STRING, STRING_8, STRING_16, STRING_32,
                                   Utf8Length(op.x))) + Utf8Length(op.x)
  /\ (op.name = "pack" /\ op.x.t = "Array") =>
       StartsWithHeader(SizeHeader(TINY_LIST, LIST_8, LIST_16, LIST_32, Len(op.x.items)),
                        Len(op.x.items))
  /\ (op.name = "pack" /\ op.x.t = "Object"
        /\ \A i \in 1..Len(op.x.props) : op.x.props[i].value.t # "undefined") =>
       StartsWithHeader(SizeHeader(TINY_MAP, MAP_8, MAP_16, MAP_32, Len(op.x.props)),
                        Len(op.x.props))
  /\ (op.name = "pack" /\ op.x.t = "Int8Array" /\ byteArraysSupported) =>
       StartsWithHeader(BytesSizeHeader(Len(op.x.elems)), Len(op.x.elems))

\* a map header of the 32-bit class
C9_Witness ==
  /\ op.name = "packMapHeader"
  /\ op.size = 65536
  /\ ch = << MAP_32, 0, 1, 0, 0 >>

\* what packing a byte array did, by the flag
PackedBytesAsFlagSays ==
  (op.name = "pack" /\ op.x.t = "Int8Array") =>
    LET n == Len(op.x.elems)
        h == BytesSizeHeader(n)
    IN IF byteArraysSupported
         THEN /\ errs = << >>
              /\ Len(ch) = Len(h) + n
              /\ SubSeq(ch, 1, Len(h)) = h
              /\ \A i \in 1..n : ch[Len(h) + i] = op.x.elems[i] % 256
         ELSE /\ Len(errs) = 1
              /\ ch = << >>

\* C10: the byte-arrays-supported flag starts true and once false stays
\* false; while it is false packing a byte array calls onError and writes
\* nothing, while it is true it writes the bytes header and then each byte in
\* order.
C10_ByteArraysFlag ==
  /\ byteArraysSupported = TRUE
  /\ [][~byteArraysSupported => ~byteArraysSupported']_vars
  /\ []PackedBytesAsFlagSays

C10_Witness ==
  /\ op.name = "pack"
  /\ op.x = Int8Array(<< -128, 127, 0 >>)
  /\ ~byteArraysSupported
  /\ Len(errs) = 1

\* the concatenation of parts[lo], ..., parts[hi]
RECURSIVE ConcatRange(_, _, _)
ConcatRange(parts, lo, hi) ==
  IF lo > hi THEN << >>
  ELSE IF lo = hi THEN parts[lo]
  ELSE LET mid == (lo + hi) \div 2
       IN ConcatRange(parts, lo, mid) \o ConcatRange(parts, mid + 1, hi)

\* the sum of numbers[lo], ..., numbers[hi]
RECURSIVE SumRange(_, _, _)
SumRange(numbers, lo, hi) ==
  IF lo > hi THEN 0
  ELSE IF lo = hi THEN numbers[lo]
  ELSE LET mid == (lo + hi) \div 2
       IN SumRange(numbers, lo, mid) + SumRange(numbers, mid + 1, hi)

GraphKinds == {"Node", "Relationship", "Path"}

\* the pairs of a map that are written: those whose value is not undefined,
\* in the order of Object.keys
WrittenPairs(x) ==
  LET keys == Object_keys(x)
      kept == SelectSeq(keys, LAMBDA k : Object_get(x, k).t # "undefined")
  IN [i \in 1..Len(kept) |-> Prop(kept[i], Object_get(x, kept[i]))]

\* the number of instances of a graph kind held by v at any depth of its
\* lists, maps and structures
RECURSIVE CountOf(_, _)
CountOf(kind, v) ==
  IF v.t = kind THEN 1
  ELSE IF v.t = "Array"
    THEN SumRange([i \in 1..Len(v.items) |-> CountOf(kind, v.items[i])], 1, Len(v.items))
  ELSE IF v.t = "Object"
    THEN LET pairs == WrittenPairs(v)
         IN SumRange([i \in 1..Len(pairs) |-> CountOf(kind, pairs[i].value)], 1, Len(pairs))
  ELSE IF v.t = "Structure"
    THEN SumRange([i \in 1..Len(v.fields) |-> CountOf(kind, v.fields[i])], 1, Len(v.fields))
  ELSE 0

\* the bytes of v when a Node, a Relationship and a Path contribute none:
\* lists, maps and structures are their header and then their parts in order,
\* any other value is what the Packer writes for it alone
RECURSIVE BytesWithoutGraph(_)
BytesWithoutGraph(v) ==
  IF v.t \in GraphKinds THEN << >>
  ELSE IF v.t = "Array"
    THEN SizeHeader(TINY_LIST, LIST_8, LIST_16, LIST_32, Len(v.items))
           \o ConcatRange([i \in 1..Len(v.items) |->
                             BytesWithoutGraph(IF v.items[i].t = "undefined" THEN Null
                                               ELSE v.items[i])],
                          1, Len(v.items))
  ELSE IF v.t = "Object"
    THEN LET pairs == WrittenPairs(v)
         IN SizeHeader(TINY_MAP, MAP_8, MAP_16, MAP_32, Len(pairs))
              \o ConcatRange([i \in 1..Len(pairs) |->
                                pack(pairs[i].key, TRUE, byteArraysSupported).ch
                                  \o BytesWithoutGraph(pairs[i].value)],
                             1, Len(pairs))
  ELSE IF v.t = "Structure"
    THEN packStructHeader(Len(v.fields), v.signature, FALSE).ch
           \o ConcatRange([i \in 1..Len(v.fields) |-> BytesWithoutGraph(v.fields[i])],
                          1, Len(v.fields))
  ELSE pack(v, TRUE, byteArraysSupported).ch

RejectionMessage(kind) ==
  IF kind = "Node" THEN "It is not allowed to pass nodes in query parameters"
  ELSE IF kind = "Relationship" THEN "It is not allowed to pass relationships in query parameters"
  ELSE "It is not allowed to pass paths in query parameters"

\* the calls of onError that reject an instance of the kind
Rejections(kind) ==
  SelectSeq(errs, LAMBDA e : e.message = RejectionMessage(kind))

IsStructMarker(byte) ==
  \/ byte \div 16 = TINY_STRUCT \div 16
  \/ byte \in {STRUCT_8, STRUCT_16}

\* C11: a Node, Relationship or Path given to packable, at top level or at any
\* depth inside lists, maps and Structures, is reported to onError once with
\* a PROTOCOL_ERROR and contributes no byte to the channel; a generic
\* Structure is not rejected this way and, with a field count PackStream v1
\* can announce, is written starting with a struct marker.
C11_GraphInstancesAreRejected ==
  /\ (op.name = "pack" /\ op.thrown = << >>) =>
       /\ ch = BytesWithoutGraph(op.x)
       /\ \A kind \in GraphKinds :
            /\ Len(Rejections(kind)) = CountOf(kind, op.x)
            /\ \A i \in 1..Len(Rejections(kind)) : Rejections(kind)[i].code = PROTOCOL_ERROR
  /\ (op.name = "pack" /\ op.x.t = "Structure") =>
       /\ Len(ch) >= 1 /\ IsStructMarker(ch[1])
       /\ InRoundTripDomain(op.x) => (errs = << >> /\ op.thrown = << >>)
  /\ op.name = "packStruct" =>
       /\ errs = << >>
       /\ op.size < 65536 => (op.thrown = << >> /\ IsStructMarker(ch[1]))

\* a Path three levels down and another two levels down
C11_Witness ==
  /\ op.name = "pack"
  /\ op.x.t = "Array"
  /\ Len(op.x.items) = 2
  /\ op.x.items[1].t = "Object"
  /\ CountOf("Path", op.x) = 2
  /\ Len(errs) = 2
  /\ ch = << 146, 161, 129, 107, 178, 1, 145, 1 >>

\* C12: for every input, an iterable that fails to materialise and a
\* Structure of more than 65535 fields included, packable returns a callable
\* continuation and neither packable nor the continuation throws.
C12_PackerNeverThrows ==
  /\ op.name = "pack" => (op.returned /\ op.callable /\ op.thrown = << >>)
  /\ op.name = "packStruct" => op.thrown = << >>

\* what pack writes for the value v alone, under the current flag
PackedAlone(v) ==
  LET p == packable(v, TRUE, byteArraysSupported)
  IN Then(p.made, CallPackable(p)).ch

InsertionKeys(x) == [i \in 1..Len(x.props) |-> x.props[i].key]

\* the order of the own keys of an object in the host language: the keys that
\* are array indices in ascending numeric order, then the other keys in
\* insertion order
OwnKeyOrder(x) ==
  LET all == InsertionKeys(x)
      indices == { i \in 1..Len(all) : IsArrayIndex(all[i]) }
      rank(i) ==
        IF i \in indices
          THEN 1 + Cardinality({ j \in indices : IndexValue(all[j]) < IndexValue(all[i]) })
          ELSE 1 + Cardinality(indices) + Cardinality({ j \in 1..(i - 1) : j \notin indices })
  IN IF indices = {} THEN all
     ELSE [r \in 1..Len(all) |-> all[CHOOSE i \in 1..Len(all) : rank(i) = r]]

\* a map header announcing the number of keys whose value is not undefined,
\* then for each such key, in the order `keys`, the key as a string and what
\* pack writes for its value
MapBytes(x, keys) ==
  LET kept == SelectSeq(keys, LAMBDA k : Object_get(x, k).t # "undefined")
  IN SizeHeader(TINY_MAP, MAP_8, MAP_16, MAP_32, Len(kept))
       \o ConcatRange([i \in 1..Len(kept) |->
                         SizeHeader(TINY_STRING, STRING_8, STRING_16, STRING_32,
                                    Utf8Length(kept[i]))
                           \o utf8_encode(kept[i])
                           \o PackedAlone(Object_get(x, kept[i]))],
                      1, Len(kept))

PackedMap == op.name = "pack" /\ op.x.t = "Object" /\ op.thrown = << >>

ListBytes(x) ==
  SizeHeader(TINY_LIST, LIST_8, LIST_16, LIST_32, Len(x.items))
    \o ConcatRange([i \in 1..Len(x.items) |->
                      PackedAlone(IF x.items[i].t = "undefined" THEN Null ELSE x.items[i])],
                   1, Len(x.items))

\* a decoder reads from ch one list of n elements, and ends at the end of ch
DecodesAsListOf(n) ==
  LET r == unpack(ch, 1, FALSE)
  IN /\ r.err = << >>
     /\ r.val.t = "Array"
     /\ Len(r.val.items) = n
     /\ r.pos = Len(ch) + 1

\* C20: for every list, whatever its elements are, pack writes a list header
\* announcing the length of the list followed by the encoding of each element
\* in index order (null for an undefined element), and a decoder that reads
\* the announced number of elements reads all the bytes written and no more.
C20_ListElements ==
  (op.name = "pack" /\ op.x.t = "Array") =>
    /\ op.thrown = << >>
    /\ ch = ListBytes(op.x)
    /\ DecodesAsListOf(Len(op.x.items))

(***************************************************************************)
(* Claims about the Unpacker                                               *)
(***************************************************************************)
\* the marker bytes no branch of unpack takes: C6, C7, CF, D3, D7, DB, DE, DF
\* and E0..EF
UntakenMarkers == {198, 199, 207, 211, 215, 219, 222, 223} \cup (224..239)

\* the marker bytes of the blob extension: C4, C5
BlobMarkers == {196, 197}

\* the number that lower-case hexadecimal digits write
RECURSIVE HexValue(_)
HexValue(digits) ==
  LET value(d) == CHOOSE k \in 0..15 :
                    << "0", "1", "2", "3", "4", "5", "6", "7", "8", "9",
                       "a", "b", "c", "d", "e", "f" >>[k + 1] = d
  IN IF digits = << >> THEN 0
     ELSE HexValue(SubSeq(digits, 1, Len(digits) - 1)) * 16 + value(digits[Len(digits)])

\* unpack threw the unknown-marker error, naming the marker in hexadecimal
ThrewUnknownMarker(marker) ==
  /\ Len(res.r.err) = 1
  /\ res.r.err[1].message = "Unknown packed value with marker"
  /\ \A i \in 1..Len(res.r.err[1].detail) :
       res.r.err[1].detail[i] \in { "0", "1", "2", "3", "4", "5", "6", "7", "8", "9",
                                    "a", "b", "c", "d", "e", "f" }
  /\ HexValue(res.r.err[1].detail) = marker

\* C13 as amended: unpack throws the error naming the marker in hexadecimal
\* for the marker bytes C6, C7, CF, D3, D7, DB, DE, DF and E0..EF, and for no
\* other marker byte; C4 and C5 are taken by the blob extension, which reads
\* 32 bytes and returns a blob description.
C13_UnknownMarkers ==
  op.name = "unpack" =>
    /\ ch[1] \in UntakenMarkers => ThrewUnknownMarker(ch[1])
    /\ ch[1] \notin UntakenMarkers => ~ThrewUnknownMarker(ch[1])
    /\ ch[1] \in BlobMarkers =>
         IF Len(ch) >= 33
           THEN res.r.err = << >> /\ res.r.val.t = "blob" /\ res.r.pos = 34
           ELSE Len(res.r.err) = 1 /\ res.r.err[1].message = "RangeError"

C13_Witness ==
  /\ op.name = "unpack"
  /\ ch[1] = 223
  /\ ThrewUnknownMarker(223)
  /\ res.r.err[1].detail = << "d", "f" >>

\* C13 as stated: C4 and C5 raise the unknown-marker error too.
C13_AsStated ==
  op.name = "unpack" =>
    /\ ch[1] \in UntakenMarkers \cup BlobMarkers => ThrewUnknownMarker(ch[1])
    /\ ch[1] \notin UntakenMarkers \cup BlobMarkers => ~ThrewUnknownMarker(ch[1])

\* what a struct buffer announces: where its signature stands and its field
\* count
SignatureAt(buf) ==
  IF buf[1] = STRUCT_8 THEN 3 ELSE IF buf[1] = STRUCT_16 THEN 4 ELSE 2

AnnouncedFields(buf) ==
  IF buf[1] = STRUCT_8 THEN buf[2]
  ELSE IF buf[1] = STRUCT_16 THEN buf[2] * 256 + buf[3]
  ELSE buf[1] % 16

IsStruct(buf) == IsStructMarker(buf[1]) /\ Len(buf) >= SignatureAt(buf)

GraphStructName(signature) ==
  IF signature = 78 THEN "Node"
  ELSE IF signature = 82 THEN "Relationship"
  ELSE IF signature = 114 THEN "UnboundRelationship"
  ELSE "Path"

GraphStructSize(signature) == IF signature = 82 THEN 5 ELSE 3

ThrewWrongStructSize ==
  /\ Len(res.r.err) = 1
  /\ res.r.err[1].code = PROTOCOL_ERROR
  /\ res.r.err[1].message \in { "Wrong struct size for " \o GraphStructName(sig) :
                                sig \in {78, 82, 114, 80} }

\* C14: a struct of signature 4E, 52, 72 or 50 that announces a field count
\* other than 3, 5, 3 and 3 makes unpack throw a PROTOCOL_ERROR naming the
\* structure, the expected and the actual size, with the read position still
\* right after the signature; a struct of any other signature is never
\* refused for its size and comes back as a Structure of that signature
\* holding the announced number of fields in wire order.
C14_StructSizes ==
  (op.name = "unpack" /\ IsStruct(ch)) =>
    LET at == SignatureAt(ch)
        signature == ch[at]
        n == AnnouncedFields(ch)
    IN IF signature \in {78, 82, 114, 80}
         THEN IF n # GraphStructSize(signature)
                THEN /\ ThrewWrongStructSize
                     /\ res.r.err[1].message
                          = "Wrong struct size for " \o GraphStructName(signature)
                     /\ res.r.err[1].detail = << GraphStructSize(signature), n >>
                     /\ res.r.pos = at + 1
                ELSE ~ThrewWrongStructSize
         ELSE /\ ~ThrewWrongStructSize
              /\ (Len(ch) >= at + n /\ \A i \in 1..n : ch[at + i] < 128) =>
                   /\ res.r.err = << >>
                   /\ res.r.val.t = "Structure"
                   /\ res.r.val.signature = signature
                   /\ Len(res.r.val.fields) = n
                   /\ \A i \in 1..n :
                        res.r.val.fields[i]
                          = (IF disableLosslessIntegers
                               THEN toNumberOrInfinity(int(ch[at + i]))
                               ELSE int(ch[at + i]))
                   /\ res.r.pos = at + n + 1

\* a Relationship announced with 3 fields in a STRUCT_8 header
C14_Witness ==
  /\ op.name = "unpack"
  /\ ch = << 220, 3, 82, 1, 2, 3 >>
  /\ ThrewWrongStructSize
  /\ res.r.err[1].detail = << 5, 3 >>

\* an integer of the path as the Unpacker hands it out
Received(n) == IF disableLosslessIntegers THEN toNumberOrInfinity(int(n)) ELSE int(n)

\* nodes[k] and rels[k] of the path on the wire, k counted from 0
SentNode(k) == Node(Received(PathNodeIds[k + 1]), Array(<< >>), Object(<< >>))

SentRel(k) == UnboundRelationship(Received(PathRelIds[k + 1]), String(<< 116 >>), Object(<< >>))

\* where segment i of the sequence starts and ends
SegmentStart(sequence, i) == IF i = 1 THEN SentNode(0) ELSE SentNode(sequence[i - 1][2])

SegmentEnd(sequence, i) == SentNode(sequence[i][2])

RelSlot(sequence, i) ==
  IF sequence[i][1] > 0 THEN sequence[i][1] - 1 ELSE (0 - sequence[i][1]) - 1

\* the relationship of segment i bound by the ends of segment i
BoundBy(sequence, i) ==
  LET rel == SentRel(RelSlot(sequence, i))
      from == SegmentStart(sequence, i).identity
      to == SegmentEnd(sequence, i).identity
  IN IF sequence[i][1] > 0
       THEN Relationship(rel.identity, from, to, rel.type, rel.properties)
       ELSE Relationship(rel.identity, to, from, rel.type, rel.properties)

\* the first segment that takes the relationship segment i takes
FirstUse(sequence, i) ==
  CHOOSE j \in 1..i :
    /\ RelSlot(sequence, j) = RelSlot(sequence, i)
    /\ \A k \in 1..(j - 1) : RelSlot(sequence, k) # RelSlot(sequence, i)

SegmentsFollowSequence ==
  /\ res.r.err = << >>
  /\ res.r.val.t = "Path"
  /\ Len(res.r.val.segments) = Len(op.sequence)
  /\ \A i \in 1..Len(op.sequence) :
       /\ res.r.val.segments[i].start = SegmentStart(op.sequence, i)
       /\ res.r.val.segments[i].end = SegmentEnd(op.sequence, i)

\* C15 as amended: path hydration gives one segment per (relIndex, nodeIndex)
\* pair, in order; the first starts at nodes[0], each ends at
\* nodes[nodeIndex] and each later one starts where the previous ended; a
\* relationship is bound where the sequence first takes it, as (start
\* identity, end identity) of that segment for relIndex > 0 and as (end
\* identity, start identity) for relIndex < 0, and a later segment taking
\* the same relationship gets it as it was bound then.
C15_PathHydration ==
  op.name = "unpackPath" =>
    /\ SegmentsFollowSequence
    /\ \A i \in 1..Len(op.sequence) :
         res.r.val.segments[i].relationship
           = BoundBy(op.sequence, FirstUse(op.sequence, i))

\* rels[0] is walked from nodes[0] to nodes[1] and again from nodes[1] to
\* nodes[2]: it stays bound by the identities 10 and 11
C15_Witness ==
  /\ op.name = "unpackPath"
  /\ op.sequence = << << 1, 1 >>, << 1, 2 >> >>
  /\ res.r.err = << >>
  /\ Len(res.r.val.segments) = 2
  /\ res.r.val.segments[2].relationship.start = Received(10)
  /\ res.r.val.segments[2].relationship.end = Received(11)

\* C15 as stated: the relationship of every segment is bound by the ends of
\* that segment.
C15_AsStated ==
  op.name = "unpackPath" =>
    /\ SegmentsFollowSequence
    /\ \A i \in 1..Len(op.sequence) :
         res.r.val.segments[i].relationship = BoundBy(op.sequence, i)

\* the slots of rels the sequence takes
TakenSlots(sequence) == { RelSlot(sequence, i) : i \in 1..Len(sequence) }

\* the first segment that takes slot k
FirstTaking(sequence, k) ==
  CHOOSE j \in 1..Len(sequence) :
    /\ RelSlot(sequence, j) = k
    /\ \A i \in 1..(j - 1) : RelSlot(sequence, i) # k

\* C22: when path hydration has ended, every slot of rels that the sequence
\* takes holds the Relationship bound at the first segment taking it (start
\* and end identities in the direction of that segment), a slot never taken
\* still holds its UnboundRelationship, and every segment holds the
\* Relationship of the slot it takes: segments taking the same slot hold the
\* same Relationship, also when a later one walks it the other way.
C22_SlotsBoundOnce ==
  op.name = "unpackPath" =>
    /\ res.r.err = << >>
    /\ Len(op.rels) = Len(PathRelIds)
    /\ \A k \in 0..(Len(PathRelIds) - 1) :
         op.rels[k + 1] =
           IF k \in TakenSlots(op.sequence)
             THEN BoundBy(op.sequence, FirstTaking(op.sequence, k))
             ELSE SentRel(k)
    /\ \A i \in 1..Len(op.sequence) :
         res.r.val.segments[i].relationship = op.rels[RelSlot(op.sequence, i) + 1]

\* rels[0] is walked from nodes[0] to nodes[1] and then back: both segments
\* hold the relationship from 10 to 11, and rels[1] is left unbound
C22_Witness ==
  /\ op.name = "unpackPath"
  /\ op.sequence = << << 1, 1 >>, << -1, 0 >> >>
  /\ res.r.err = << >>
  /\ res.r.val.segments[1].relationship = res.r.val.segments[2].relationship
  /\ res.r.val.segments[2].relationship.start = Received(10)
  /\ res.r.val.segments[2].relationship.end = Received(11)
  /\ op.rels[2].t = "UnboundRelationship"

\* C23: a decoded Path with at least one segment starts at the start node of
\* its first segment and ends at the end node of its last segment, also when
\* the last node the sequence visits is not the last entry of nodes.
C23_PathEnds ==
  (op.name = "unpackPath" /\ Len(op.sequence) >= 1) =>
    /\ res.r.err = << >>
    /\ res.r.val.t = "Path"
    /\ res.r.val.start = res.r.val.segments[1].start
    /\ res.r.val.end = res.r.val.segments[Len(res.r.val.segments)].end

\* the signed value of big-endian bytes: the first byte carries the sign
RECURSIVE SignExtended(_)
SignExtended(bytes) ==
  IF Len(bytes) = 1 THEN (IF bytes[1] >= 128 THEN bytes[1] - 256 ELSE bytes[1])
  ELSE SignExtended(SubSeq(bytes, 1, Len(bytes) - 1)) * 256 + bytes[Len(bytes)]

IntegerWidth(marker) ==
  IF marker = INT_8 THEN 1 ELSE IF marker = INT_16 THEN 2
  ELSE IF marker = INT_32 THEN 4 ELSE IF marker = INT_64 THEN 8 ELSE 0

IsIntegerMarker(marker) ==
  marker < 128 \/ marker >= 240 \/ marker \in {INT_8, INT_16, INT_32, INT_64}

\* the integer that starts at buf[at], as its high and low 32-bit words
IntegerAt(buf, at) ==
  LET marker == buf[at]
      small(n) == [high |-> IF n < 0 THEN -1 ELSE 0, low |-> n]
  IN IF marker < 128 THEN small(marker)
     ELSE IF marker >= 240 THEN small(marker - 256)
     ELSE IF marker = INT_64
       THEN [high |-> SignExtended(SubSeq(buf, at + 1, at + 4)),
             low |-> SignExtended(SubSeq(buf, at + 5, at + 8))]
     ELSE small(SignExtended(SubSeq(buf, at + 1, at + IntegerWidth(marker))))

\* v is what unpack returns for the integer or float that starts at buf[at]
IsDecodedNumberAt(v, buf, at) ==
  IF buf[at] = FLOAT_64
    THEN v = [t |-> "number", image |-> SubSeq(buf, at + 1, at + 8)]
  ELSE LET x == IntegerAt(buf, at)
       IN IF disableLosslessIntegers
            THEN /\ v.t = "number"
                 /\ "image" \notin DOMAIN v
                 /\ (x.high = (IF x.low < 0 THEN -1 ELSE 0)) =>
                      ("infinite" \notin DOMAIN v /\ v.high = x.high /\ v.low = x.low)
            ELSE v = [t |-> "Integer", high |-> x.high, low |-> x.low]

\* the latest operation unpacked a whole integer or float, alone (at = 1) or
\* as the element of a list of one (at = 2)
UnpackedNumberAt(at) ==
  /\ op.name = "unpack"
  /\ Len(ch) >= at
  /\ at = 2 => ch[1] = TINY_LIST + 1
  /\ (IsIntegerMarker(ch[at]) \/ ch[at] = FLOAT_64)
  /\ Len(ch) = at + (IF ch[at] = FLOAT_64 THEN 8 ELSE IntegerWidth(ch[at]))

\* C21: markers 00..7F decode to the marker value and F0..FF to the marker
\* value minus 256; INT_8, INT_16 and INT_32 decode to the sign-extended
\* payload; INT_64 decodes to the Integer whose high word is the first payload
\* word and whose low word is the second; with disableLosslessIntegers every
\* decoded integer, nested ones included, is a native number (of the same
\* value when it fits 32 bits); a float is returned with its image unchanged
\* under either setting.
C21_IntegerDecoding ==
  /\ UnpackedNumberAt(1) =>
       (res.r.err = << >> /\ res.r.pos = Len(ch) + 1 /\ IsDecodedNumberAt(res.r.val, ch, 1))
  /\ UnpackedNumberAt(2) =>
       /\ res.r.err = << >>
       /\ res.r.val.t = "Array"
       /\ Len(res.r.val.items) = 1
       /\ IsDecodedNumberAt(res.r.val.items[1], ch, 2)

\* CB 00000001 80000000 is the Integer of high word 1 and low word -2^31
C21_Witness ==
  /\ op.name = "unpack"
  /\ ch = << INT_64, 0, 0, 0, 1, 128, 0, 0, 0 >>
  /\ ~disableLosslessIntegers
  /\ res.r.val = Integer(MinInt32, 1)

\* the decoder classes unpack tests, in the order it tests them
Classes ==
  << "null", "boolean", "blob", "numberOrInteger", "string", "list", "byteArray", "map",
     "struct" >>

\* what the class c returns for the marker at buf[1], the read position
\* standing behind the marker
ClassResult(c, buf, dli) ==
  LET marker == buf[1]
      markerHigh == BitAnd(marker, 240)
      markerLow == BitAnd(marker, 15)
  IN IF c = "null" THEN (IF marker = NULL THEN Result(Null, 2) ELSE NotMine(2))
     ELSE IF c = "boolean" THEN unpackBoolean(marker, 2)
     ELSE IF c = "blob" THEN unpackBlob(marker, buf, 2)
     ELSE IF c = "numberOrInteger" THEN unpackNumberOrInteger(marker, buf, 2)
     ELSE IF c = "string" THEN unpackString(marker, markerHigh, markerLow, buf, 2)
     ELSE IF c = "list" THEN unpackList(marker, markerHigh, markerLow, buf, 2, dli)
     ELSE IF c = "byteArray" THEN unpackByteArray(marker, buf, 2)
     ELSE IF c = "map" THEN unpackMap(marker, markerHigh, markerLow, buf, 2, dli)
     ELSE unpackStruct(marker, markerHigh, markerLow, buf, 2, dli)

Recognisers(buf, dli) ==
  { i \in 1..Len(Classes) : ~IsNotMine(ClassResult(Classes[i], buf, dli)) }

\* what unpack hands out when class c has recognised the marker
HandedOut(c, r, dli) ==
  IF c = "numberOrInteger" /\ r.err = << >> /\ dli /\ r.val.t = "Integer"
    THEN Result(toNumberOrInfinity(r.val), r.pos)
    ELSE r

\* C25: for every marker byte at most one of the classes null, boolean, blob,
\* float-or-integer, string, list, bytes, map and struct recognises it; a
\* class that does not recognise it answers "not mine" with the read position
\* where it was; and unpack returns what the recognising class returns,
\* whichever place that class has in the order of the tests.
C25_OneClassPerMarker ==
  (op.name = "unpack" /\ Len(ch) >= 1) =>
    LET dli == disableLosslessIntegers
    IN /\ Cardinality(Recognisers(ch, dli)) <= 1
       /\ \A i \in 1..Len(Classes) :
            LET r == ClassResult(Classes[i], ch, dli)
            IN IF IsNotMine(r)
                 THEN r.pos = 2
                 ELSE res.r = HandedOut(Classes[i], r, dli)
       /\ Recognisers(ch, dli) = {} <=> ThrewUnknownMarker(ch[1])

\* CC 00: only the bytes class takes the marker, and reads an empty array
C25_Witness ==
  /\ op.name = "unpack"
  /\ Len(ch) = 41
  /\ ch[1] = BYTES_8
  /\ Recognisers(ch, disableLosslessIntegers) = {7}
  /\ res.r.val = Int8Array(<< >>)
  /\ res.r.pos = 3

(***************************************************************************)
(* Claims about the temporal utilities                                     *)
(***************************************************************************)
\* C16: epochDayToDate(dateToEpochDay(d)) has the year, month and day of d,
\* for every valid date d of the years -9999..9999, negative years, leap
\* years and February 29 included.
C16_DateRoundTrip ==
  (op.name = "dateToEpochDay" /\ res.done) =>
    /\ res.r.year = op.date.year
    /\ res.r.month = op.date.month
    /\ res.r.day = op.date.day

\* February 29 of the year -4
C16_Witness ==
  /\ op.name = "dateToEpochDay"
  /\ op.date = Date(-4, 2, 29)
  /\ res.done
  /\ res.r = Date(-4, 2, 29)

\* C17: for every local time t with hour in 0..23, minute in 0..59, second in
\* 0..59 and nanosecond in 0..999999999, localTimeToNanoOfDay(t) is
\* hour*3600000000000 + minute*60000000000 + second*1000000000 + nanosecond
\* (in base 10^9: hour*3600 + minute*60 + second whole seconds and nanosecond
\* nanoseconds), and nanoOfDayToLocalTime of it has the hour, minute, second
\* and nanosecond of t.
C17_LocalTimeRoundTrip ==
  (op.name = "localTimeToNanoOfDay") =>
    LET t == op.localTime
    IN /\ op.nanoOfDay = Wide(t.hour * 3600 + t.minute * 60 + t.second, t.nanosecond)
       /\ res.done =>
            res.r = LocalTime(Wide(0, t.hour), Wide(0, t.minute), Wide(0, t.second),
                              Wide(0, t.nanosecond))

\* the last nanosecond of the day has gone there and back
C17_Witness ==
  /\ op.name = "localTimeToNanoOfDay"
  /\ op.localTime = LocalTime(23, 59, 59, 999999999)
  /\ op.nanoOfDay = Wide(86399, 999999999)
  /\ res.done
  /\ res.r.hour = Wide(0, 23)

\* C24: for a valid local date-time ldt and a nanosecond n in 0..999999999,
\* localDateTimeToEpochSecond(ldt) is epochDay * 86400 + secondsOfDay and
\* epochSecondAndNanoToLocalDateTime of it and n has the date, hour, minute
\* and second of ldt and the nanosecond n; for every epoch second, negative
\* ones included, the local time returned lies in 00:00:00..23:59:59, is the
\* time of the second epochSecond mod 86400 of the day, and the date is the
\* one whose epoch day is the floor of epochSecond / 86400.
C24_DateTimeRoundTrip ==
  /\ (op.name = "localDateTimeToEpochSecond") =>
       LET date == op.localDateTime.localDate
           time == op.localDateTime.localTime
       IN /\ op.epochSecond = dateToEpochDay(date) * 86400
                                + time.hour * 3600 + time.minute * 60 + time.second
          /\ res.done =>
               /\ res.r.localDate = date
               /\ res.r.localTime = LocalTime(Wide(0, time.hour), Wide(0, time.minute),
                                              Wide(0, time.second), Wide(0, op.nano))
  /\ (op.name = "epochSecondAndNanoToLocalDateTime") =>
       LET time == res.r.localTime
           secondOfDay == op.epochSecond % 86400
       IN /\ time.hour.hi = 0 /\ time.hour.lo \in 0..23
          /\ time.minute.hi = 0 /\ time.minute.lo \in 0..59
          /\ time.second.hi = 0 /\ time.second.lo \in 0..59
          /\ time.hour.lo * 3600 + time.minute.lo * 60 + time.second.lo = secondOfDay
          /\ time.nanosecond = Wide(0, op.nano)
          /\ dateToEpochDay(res.r.localDate) * 86400 = op.epochSecond - secondOfDay

\* the last second before the epoch: 1969-12-31T23:59:59 is epoch second -1
C24_Witness ==
  /\ op.name = "localDateTimeToEpochSecond"
  /\ op.localDateTime.localDate = Date(1969, 12, 31)
  /\ op.epochSecond = -1
  /\ res.done
  /\ res.r.localDate = Date(1969, 12, 31)
  /\ res.r.localTime.hour = Wide(0, 23)

\* C26: for integers x and y # 0, floorDiv(x, y) is the quotient rounded
\* towards negative infinity (x - floorDiv(x, y) * y is 0 or lies strictly
\* between 0 and y), which is the truncated quotient minus 1 exactly when x and
\* y have different signs and y does not divide x; floorMod(x, y) is
\* x - floorDiv(x, y) * y, is 0 or has the sign of y, and lies in 0..y-1 for
\* y > 0.
C26_FloorDivMod ==
  (op.name = "floorDiv") =>
    LET x == op.x
        y == op.y
        rest == x - op.div * y
        differ == (x < 0 /\ y > 0) \/ (x > 0 /\ y < 0)
        exact == x % (IF y < 0 THEN 0 - y ELSE y) = 0
    IN /\ IF y > 0 THEN rest >= 0 /\ rest < y ELSE rest <= 0 /\ rest > y
       /\ op.div = Integer_div(x, y) - (IF differ /\ ~exact THEN 1 ELSE 0)
       /\ op.mod = rest
       /\ (op.mod = 0 \/ (op.mod > 0) = (y > 0))
       /\ y > 0 => (op.mod >= 0 /\ op.mod < y)

\* floorDiv(-7, 2) = -4 and floorMod(-7, 2) = 1
C26_Witness ==
  /\ op.name = "floorDiv"
  /\ op.x = -7
  /\ op.y = 2
  /\ op.div = -4
  /\ op.mod = 1

(***************************************************************************)
(* What the latest facade invocation did                                   *)
(***************************************************************************)
Entries == SubSeq(log, call.from + 1, Len(log))

IsWrite(e) == e.kind = "write"

Written(message, observer, flush) ==
  [kind |-> "write", message |-> message, observer |-> observer, flush |-> flush]

\* C1: run or beginTransaction with a non-empty txConfig calls
\* connection._handleFatalError once, then observer.onError once with the same
\* error, throws that error, and never calls connection.write.
C1_NonEmptyTxConfigIsFatal ==
  (call.op \in {"run", "beginTransaction"} /\ ~isEmpty(call.args.txConfig)) =>
    /\ Len(call.thrown) = 1
    /\ Entries = << [kind |-> "handleFatalError", error |-> call.thrown[1]],
                    [kind |-> "onError", observer |-> call.args.observer,
                     error |-> call.thrown[1]] >>

C1_Witness ==
  /\ call.op = "beginTransaction"
  /\ ~isEmpty(call.args.txConfig)
  /\ call.from > 0
  /\ call.thrown # <<>>

\* C2: run with an empty txConfig writes RUN(statement, parameters) unflushed
\* and then PULL_ALL flushed, both with the given observer, and nothing else,
\* whatever the bookmark is.
C2_RunWritesRunThenPullAll ==
  (call.op = "run" /\ isEmpty(call.args.txConfig)) =>
    /\ call.thrown = <<>>
    /\ Entries = << Written(RequestMessage_run(call.args.statement, call.args.parameters),
                            call.args.observer, FALSE),
                    Written(RequestMessage_pullAll, call.args.observer, TRUE) >>

C2_Witness ==
  /\ call.op = "run"
  /\ isEmpty(call.args.txConfig)
  /\ call.args.bookmark # Bookmark_empty
  /\ call.args.parameters # {}
  /\ Len(Entries) = 2

\* C3: beginTransaction with an empty txConfig writes RUN("BEGIN",
\* bookmark.asBeginTransactionParameters()) and then PULL_ALL, both unflushed
\* and both with the given observer, and nothing else.
C3_BeginWritesUnflushedPair ==
  (call.op = "beginTransaction" /\ isEmpty(call.args.txConfig)) =>
    /\ call.thrown = <<>>
    /\ Entries = << Written(RequestMessage_run("BEGIN",
                                asBeginTransactionParameters(call.args.bookmark)),
                            call.args.observer, FALSE),
                    Written(RequestMessage_pullAll, call.args.observer, FALSE) >>

C3_Witness ==
  /\ call.op = "beginTransaction"
  /\ isEmpty(call.args.txConfig)
  /\ call.args.bookmark # Bookmark_empty
  /\ Len(Entries) = 2

\* C4: initialize writes the single message INIT(clientName, authToken) and
\* reset the single message RESET, flushed and with the given observer; neither
\* reports a transaction-configuration error.
C4_InitAndResetWriteOneFlushedMessage ==
  /\ call.op = "initialize" =>
       /\ call.thrown = <<>>
       /\ Entries = << Written(RequestMessage_init(call.args.clientName, call.args.authToken),
                               call.args.observer, TRUE) >>
  /\ call.op = "reset" =>
       /\ call.thrown = <<>>
       /\ Entries = << Written(RequestMessage_reset, call.args.observer, TRUE) >>

C4_Witness ==
  /\ call.op = "reset"
  /\ call.from > 0
  /\ log[1].message.name = "INIT"
  /\ Len(Entries) = 1

\* C5: commitTransaction writes RUN("COMMIT", {}) unflushed then PULL_ALL
\* flushed, rollbackTransaction RUN("ROLLBACK", {}) unflushed then PULL_ALL
\* flushed, with the given observer; neither throws nor marks the connection
\* fatal.
C5_CommitAndRollbackWriteRunPullAll ==
  /\ call.op = "commitTransaction" =>
       /\ call.thrown = <<>>
       /\ Entries = << Written(RequestMessage_run("COMMIT", {}), call.args.observer, FALSE),
                       Written(RequestMessage_pullAll, call.args.observer, TRUE) >>
  /\ call.op = "rollbackTransaction" =>
       /\ call.thrown = <<>>
       /\ Entries = << Written(RequestMessage_run("ROLLBACK", {}), call.args.observer, FALSE),
                       Written(RequestMessage_pullAll, call.args.observer, TRUE) >>

C5_Witness ==
  /\ call.op = "commitTransaction"
  /\ call.from > 0
  /\ log[1].message.fields[1] = "BEGIN"
  /\ Len(Entries) = 2

\* the writes of the whole log, in order
AllWrites == SelectSeq(log, IsWrite)

\* every write with flush=false has a later write with flush=true
EveryWriteIsFlushed ==
  \A i \in 1..Len(AllWrites) :
    ~AllWrites[i].flush => \E j \in (i + 1)..Len(AllWrites) : AllWrites[j].flush

\* C18: whenever run, commitTransaction, rollbackTransaction, reset or
\* initialize has returned normally, every message written so far with
\* flush=false is followed by a later write with flush=true; when an operation
\* has returned normally and the latest write is unflushed, that operation is
\* beginTransaction.
C18_OnlyBeginLeavesUnflushed ==
  (call.op # "none" /\ call.thrown = <<>>) =>
    /\ call.op # "beginTransaction" => EveryWriteIsFlushed
    /\ ~EveryWriteIsFlushed => call.op = "beginTransaction"
    /\ call.op = "beginTransaction" =>
         (~AllWrites[Len(AllWrites)].flush /\ ~AllWrites[Len(AllWrites) - 1].flush)

\* a statement run after beginTransaction has flushed the two messages of BEGIN
C18_Witness ==
  /\ call.op = "run"
  /\ call.thrown = <<>>
  /\ Len(AllWrites) = 4
  /\ ~AllWrites[1].flush /\ ~AllWrites[2].flush /\ ~AllWrites[3].flush
  /\ AllWrites[4].flush
  /\ AllWrites[1].message = RequestMessage_run("BEGIN", {})

====
